---- MODULE Spec2Model ----
(***************************************************************************)
(* A model of the reactive core (src/core/signals.rs), the flexbox layout  *)
(* calculator (src/core/layout.rs), the renderer (src/core/renderer.rs),   *)
(* the ANSI utilities (src/utils/ansi.rs) and the focus manager            *)
(* (src/core/focus.rs) of tuiuiu.                                          *)
(*                                                                         *)
(* Signals: the thread-local runtime context (TRACKING, BATCHING,          *)
(* PENDING_EFFECTS, EFFECTS), the NEXT_ID counter and the objects that the *)
(* handles share (SignalInner, EffectInner, MemoInner).  One action per    *)
(* public operation.  Closures passed to create_effect are small programs  *)
(* (sequences of signal operations) run by an interpreter inside the       *)
(* action that invokes them; the closure passed to batch is user code, so  *)
(* batch is split in the part before f() and the part after it.            *)
(*                                                                         *)
(* Layout, rendering and ANSI strings are pure functions, written as       *)
(* operators and applied by actions to inputs from bounded sets; a String  *)
(* is the sequence of its chars.  The focus manager is one action per      *)
(* method.  Every specification below starts from the same initial state   *)
(* and takes the actions of one part of the program.                       *)
(***************************************************************************)
EXTENDS Integers, Sequences, FiniteSets, TLC

\* ------------------------------------------------------------------ bounds
MaxVal == 2
MaxSignals == 2
MaxEffects == 1
MaxMemos == 1
MaxBatchDepth == 2
MaxChildren == 2
MaxStyled == 2

VARIABLES
    NEXT_ID,          \* static NEXT_ID: AtomicU64
    signals,          \* the SignalInner objects, in creation order
    EFFECTS,          \* thread-local EFFECTS: the EffectInner objects
    memos,            \* the MemoInner objects, in creation order
    TRACKING,         \* thread-local TRACKING: 0 is None
    BATCHING,         \* thread-local BATCHING
    PENDING_EFFECTS,  \* thread-local PENDING_EFFECTS
    batchStack,       \* was_batching of every batch() call on the call stack
    edition,          \* the Rust edition of the build, once it shows
    panicked,         \* the thread has unwound from a panic
    last,             \* the last operation and what it returned
    ran,              \* the callbacks the last operation ran, in order
    written,          \* per signal, the value of the most recent write
    batchLog,         \* the signals written since the outermost batch began
    tree,             \* the LayoutNode tree the application has built
    avail,            \* the size given to the last calculate_layout call
    result,           \* the LayoutResult of that call, by node id
    input,            \* the arguments of the last render_to_string/colorize
    output,           \* the String that call returned
    plain,            \* what strip_ansi returned for that String
    elements,         \* FocusManager.elements
    focused,          \* FocusManager.focused
    history,          \* FocusManager.history
    callbacks,        \* FocusManager.callbacks: how many are subscribed
    flast,            \* the last FocusManager call, what it returned and saw
    remote,           \* the ids of the objects other threads have created
    idArg             \* create_id between its two next_id() calls

sigVars == <<NEXT_ID, signals, EFFECTS, memos, TRACKING, BATCHING,
             PENDING_EFFECTS, batchStack, edition, panicked, last, ran,
             written, batchLog>>

\* sigVars but for panicked
sigRest == <<NEXT_ID, signals, EFFECTS, memos, TRACKING, BATCHING,
             PENDING_EFFECTS, batchStack, edition, last, ran, written,
             batchLog>>

layoutVars == <<tree, avail, result>>

textVars == <<input, output, plain>>

focusVars == <<elements, focused, history, callbacks, flast>>

idVars == <<remote, idArg>>

vars == <<sigVars, layoutVars, textVars, focusVars, idVars>>

nonSigVars == <<layoutVars, textVars, focusVars, idVars>>
nonLayoutVars == <<sigVars, textVars, focusVars, idVars>>

Values == 0 .. MaxVal
NoRet == 0 - 1

\* ------------------------------------------------------------ closures
\* The operations a callback performs, in program order.
Get(s) == [op |-> "get", s |-> s]
UntrackGet(s) == [op |-> "untrack_get", s |-> s]
GetUntracked(s) == [op |-> "get_untracked", s |-> s]
SetFromSeen(s, t) == [op |-> "set_seen", s |-> s, t |-> t]
\* create_effect(move || { s.get(); }) called inside a callback
CreateEffectIn(s) == [op |-> "create_effect", s |-> s]

\* test_batch's closure, test_untrack's closure (and its mirror image), a
\* closure that reads without tracking, and the closure of create_deferred,
\* create_throttled and create_debounced (read the source, write the copy).
Callbacks ==
    { <<Get(1), Get(2)>>,
      <<Get(1), UntrackGet(2)>>,
      <<UntrackGet(2), Get(1)>>,
      <<Get(2), GetUntracked(1)>>,
      <<Get(1), SetFromSeen(2, 1)>> }

\* Closures that read after an untrack call and after a nested
\* create_effect call have returned.
NestingCallbacks ==
    { <<Get(1), CreateEffectIn(2), Get(2)>>,
      <<CreateEffectIn(1), Get(1)>>,
      <<UntrackGet(1), Get(2)>>,
      <<Get(1), Get(2)>> }

SignalsOf(cb) == {cb[i].s : i \in DOMAIN cb}
ReadsTracked(cb, s) == \E i \in DOMAIN cb : cb[i].op = "get" /\ cb[i].s = s
ReadsOnlyUntracked(cb, s) ==
    /\ \E i \in DOMAIN cb : cb[i].op = "untrack_get" /\ cb[i].s = s
    /\ ~ReadsTracked(cb, s)

\* ------------------------------------------------------------ runtime
\* The mutable state the operations work on, as one record.
Cur ==
    [NEXT_ID |-> NEXT_ID, signals |-> signals, EFFECTS |-> EFFECTS,
     TRACKING |-> TRACKING, BATCHING |-> BATCHING,
     PENDING_EFFECTS |-> PENDING_EFFECTS, memos |-> memos,
     edition |-> edition, written |-> written, heap |-> <<>>,
     ran |-> <<>>, borrowed |-> {}, panic |-> FALSE]

next_id(G) == G.NEXT_ID

is_batching(G) == G.BATCHING

\* ReadSignal::track on the signal with index s.
track(G, s) ==
    IF G.TRACKING # 0
    THEN [G EXCEPT !.heap[G.TRACKING] = @ \cup {G.signals[s].id}]
    ELSE G

\* untrack: take() the context; the caller restores it with untrack_restore.
untrack_take(G) == [G EXCEPT !.TRACKING = 0]
untrack_restore(G, prev) == [G EXCEPT !.TRACKING = prev]

\* Run k of a callback reads the value of signal s into a local.
Observe(G, k, s) ==
    [G EXCEPT !.ran[k].seen[s] = G.signals[s].value]

\* Run k of a callback has called get() on signal s.
Tracked(G, k, s) ==
    [G EXCEPT !.ran[k].tracked = @ \cup {G.signals[s].id}]

RECURSIVE run_effect(_, _)
RECURSIVE RunOps(_, _, _)
\* The entry that a callback run of effect e adds to the log.
NewRun(e) ==
    [e |-> e, seen |-> [s \in 1 .. MaxSignals |-> NoRet], tracked |-> {}]
RECURSIVE create_effect(_, _)
RECURSIVE run_subscribers(_, _)

\* `for effect in subscribers { effect(); }`
run_subscribers(G, subs) ==
    IF subs = <<>> THEN G
    ELSE run_subscribers(run_effect(G, Head(subs)), Tail(subs))

\* WriteSignal::notify
notify(G, s) ==
    LET subscribers == G.signals[s].subscribers IN
    IF is_batching(G)
    THEN [G EXCEPT !.PENDING_EFFECTS = @ \o subscribers]
    ELSE run_subscribers(G, subscribers)

\* *self.inner.value.borrow_mut() = value
store(G, s, v) == [G EXCEPT !.signals[s].value = v]

\* WriteSignal::set
WriteSignal_set(G, s, v) == notify(store(G, s, v), s)

\* WriteSignal::update that notifies without having run the closure.
WriteSignal_update_unapplied(G, s) == notify(G, s)

\* WriteSignal::update with the closure |c| *c += 1
WriteSignal_update(G, s) == notify(store(G, s, G.signals[s].value + 1), s)

\* The most recent write, kept beside the program's state.
NoteWrite(G, s, v) == [G EXCEPT !.written[s] = v]

\* RefCell::borrow and RefCell::borrow_mut on the value of signal s: both
\* panic while a RefMut of that value is alive.
borrow(G, s) == IF s \in G.borrowed THEN [G EXCEPT !.panic = TRUE] ELSE G
borrow_mut(G, s) == IF s \in G.borrowed THEN [G EXCEPT !.panic = TRUE] ELSE G

\* The call that the closure of update_with makes on signal t.
call_in_closure(G, t, inner) ==
    CASE inner = "get" -> borrow(track(G, t), t)
      [] inner = "get_untracked" -> borrow(G, t)
      [] inner = "set" ->
           IF borrow_mut(G, t).panic THEN borrow_mut(G, t)
           ELSE WriteSignal_set(NoteWrite(G, t, 0), t, 0)
      [] inner = "update" ->
           IF borrow_mut(G, t).panic THEN borrow_mut(G, t)
           ELSE WriteSignal_update(
                    NoteWrite(G, t, G.signals[t].value + 1), t)

\* The rest of update once the closure has made its call: a panic unwinds
\* (the RefMut is dropped, nothing is stored or notified), otherwise the
\* closure does `*c += 1` and update notifies.
update_finish(G, s) ==
    IF G.panic THEN [G EXCEPT !.borrowed = @ \ {s}]
    ELSE notify(store(NoteWrite([G EXCEPT !.borrowed = @ \ {s}], s,
                                G.signals[s].value + 1),
                      s, G.signals[s].value + 1),
                s)

\* WriteSignal::update with the closure |c| { t.inner(); *c += 1 }:
\* `f(&mut self.inner.value.borrow_mut())` keeps the RefMut of the value
\* alive while f runs.
WriteSignal_update_with(G, s, t, inner) ==
    update_finish(
        call_in_closure([G EXCEPT !.borrowed = @ \cup {s}], t, inner), s)

\* The body of a callback, as run k of the log.
RunOps(G, k, ops) ==
    IF ops = <<>> THEN G
    ELSE
      LET o == Head(ops)
          G1 ==
            CASE o.op = "get" ->
                   Tracked(Observe(track(G, o.s), k, o.s), k, o.s)
              [] o.op = "create_effect" -> create_effect(G, <<Get(o.s)>>)
              [] o.op = "get_untracked" -> Observe(G, k, o.s)
              [] o.op = "untrack_get" ->
                   untrack_restore(
                       Observe(track(untrack_take(G), o.s), k, o.s),
                       G.TRACKING)
              [] o.op = "set_seen" ->
                   WriteSignal_set(
                       NoteWrite(G, o.s, G.ran[k].seen[o.t]),
                       o.s, G.ran[k].seen[o.t])
      IN RunOps(G1, k, Tail(ops))

\* run_effect: a fresh dependency set becomes the tracking context, the
\* callback runs, the context is cleared, the set is stored.
run_effect(G, e) ==
    LET d == Len(G.heap) + 1
        k == Len(G.ran) + 1
        G1 == [G EXCEPT !.heap = Append(@, {}), !.TRACKING = d]
        G2 == RunOps([G1 EXCEPT !.EFFECTS[e].calls = @ + 1,
                                !.ran = Append(@, NewRun(e))],
                     k, G1.EFFECTS[e].callback)
        G3 == [G2 EXCEPT !.TRACKING = 0]
    IN [G3 EXCEPT !.EFFECTS[e].dependencies = G3.heap[d]]

\* The EffectInner that create_effect allocates.
NewEffect(id, cb) ==
    [id |-> id, callback |-> cb, dependencies |-> {}, calls |-> 0]

\* create_effect that leaves the first run to the first notification.
create_effect_deferred(G, cb) ==
    [G EXCEPT !.NEXT_ID = @ + 1,
              !.EFFECTS = Append(@, NewEffect(next_id(G), cb))]

\* create_effect: the effect is run once, then pushed on EFFECTS.  (The
\* record is placed in the sequence first so that run_effect can address
\* it; nothing reads EFFECTS in between.)
create_effect(G, cb) ==
    LET e == Len(G.EFFECTS) + 1
        G1 == [G EXCEPT !.NEXT_ID = @ + 1,
                        !.EFFECTS = Append(@, NewEffect(next_id(G), cb))]
    IN run_effect(G1, e)

\* Writes the variables that Cur reads.
Commit(G) ==
    /\ NEXT_ID' = G.NEXT_ID
    /\ signals' = G.signals
    /\ EFFECTS' = G.EFFECTS
    /\ TRACKING' = G.TRACKING
    /\ BATCHING' = G.BATCHING
    /\ PENDING_EFFECTS' = G.PENDING_EFFECTS
    /\ memos' = G.memos
    /\ written' = G.written
    /\ ran' = G.ran

Op(name, a, ret) == [op |-> name, a |-> a, ret |-> ret]

\* ------------------------------------------------------------- memos
None == <<>>
Some(v) == <<v>>

\* The MemoInner that create_memo allocates; its compute closure is
\* `move || src.get() * 2` and counts its own invocations.
NewMemo(id, src) ==
    [id |-> id, src |-> src, cached |-> None, computed |-> 0,
     first |-> None]

\* (self.inner.compute)() for the closure above.
compute(G, m) ==
    LET s == G.memos[m].src
        v == 2 * G.signals[s].value
        G1 == track(G, s)
    IN [G |-> [G1 EXCEPT !.memos[m].computed = @ + 1,
                         !.memos[m].first =
                             IF @ = None THEN Some(v) ELSE @],
        value |-> v]

\* A memo that recomputes on every read and only refreshes its cache.
cached_or_compute_always(G, m) ==
    LET c == compute(G, m) IN
    IF G.memos[m].cached = None /\ G.edition = "2021"
    THEN [G |-> c.G, ret |-> NoRet, panic |-> TRUE]
    ELSE [G |-> [c.G EXCEPT !.memos[m].cached = Some(c.value)],
          ret |-> c.value, panic |-> FALSE]

\* The `if let Some(cached) = self.inner.cached.borrow().clone() {..} else
\* {..}` shared by Memo::get and Memo::get_untracked.  The Ref returned by
\* borrow() is a temporary of the scrutinee: up to edition 2021 it lives to
\* the end of the whole if-let, so the borrow_mut() of the else block
\* panics (BorrowMutError); from edition 2024 it is dropped before the else
\* block runs.
cached_or_compute(G, m) ==
    IF G.memos[m].cached # None
    THEN [G |-> G, ret |-> G.memos[m].cached[1], panic |-> FALSE]
    ELSE LET c == compute(G, m) IN
         IF G.edition = "2021"
         THEN [G |-> c.G, ret |-> NoRet, panic |-> TRUE]
         ELSE [G |-> [c.G EXCEPT !.memos[m].cached = Some(c.value)],
               ret |-> c.value, panic |-> FALSE]

\* Memo::get
Memo_get(G, m) ==
    LET G1 == IF G.TRACKING # 0
              THEN [G EXCEPT !.heap[G.TRACKING] = @ \cup {G.memos[m].id}]
              ELSE G
    IN cached_or_compute(G1, m)

\* Memo::get_untracked
Memo_get_untracked(G, m) == cached_or_compute(G, m)

\* ------------------------------------------------------------- batch
RECURSIVE run_pending(_, _, _)
\* `for effect in effects { if seen.insert(ptr) { effect(); } }`
run_pending(G, effects, seen) ==
    IF effects = <<>> THEN G
    ELSE IF Head(effects) \in seen
         THEN run_pending(G, Tail(effects), seen)
         ELSE run_pending(run_effect(G, Head(effects)), Tail(effects),
                          seen \cup {Head(effects)})

\* batch that leaves the flag set when the outermost call returns.
batch_leave_flag_kept(G, was_batching) ==
    IF ~was_batching
    THEN LET effects == G.PENDING_EFFECTS
             G1 == [G EXCEPT !.PENDING_EFFECTS = <<>>]
         IN run_pending(G1, effects, {})
    ELSE G

\* batch, from `let result = f();` on, for a call that saw was_batching.
batch_leave(G, was_batching) ==
    IF ~was_batching
    THEN LET effects == G.PENDING_EFFECTS
             G1 == [G EXCEPT !.BATCHING = FALSE, !.PENDING_EFFECTS = <<>>]
         IN run_pending(G1, effects, {})
    ELSE G

\* ------------------------------------------------------------ actions
InitialValues == 0 .. (MaxVal - 1)
Editions == {"2021", "2024"}
NoLog == {}

SigInit ==
    /\ NEXT_ID = 0
    /\ signals = <<>>
    /\ EFFECTS = <<>>
    /\ memos = <<>>
    /\ TRACKING = 0
    /\ BATCHING = FALSE
    /\ PENDING_EFFECTS = <<>>
    /\ batchStack = <<>>
    /\ edition = "unknown"
    /\ panicked = FALSE
    /\ last = Op("init", 0, NoRet)
    /\ ran = <<>>
    /\ written = <<>>
    /\ batchLog = NoLog

\* A write to signal s made by the closure of an open batch is logged.
LogWrite(s) ==
    IF batchStack # <<>> THEN batchLog \cup {s} ELSE batchLog

\* create_signal(initial)
CreateSignal(initial) ==
    /\ ~panicked
    /\ Len(signals) < MaxSignals
    /\ signals' = Append(signals, [id |-> NEXT_ID, value |-> initial,
                                   subscribers |-> <<>>])
    /\ NEXT_ID' = NEXT_ID + 1
    /\ written' = Append(written, initial)
    /\ ran' = <<>>
    /\ last' = Op("create_signal", Len(signals) + 1, NoRet)
    /\ UNCHANGED <<EFFECTS, memos, TRACKING, BATCHING, PENDING_EFFECTS,
                   batchStack, edition, panicked, batchLog>>
    /\ UNCHANGED nonSigVars

\* ReadSignal::get, called by the application outside any callback
ReadGet(s) ==
    /\ ~panicked
    /\ s \in DOMAIN signals
    /\ Commit(track(Cur, s))
    /\ last' = Op("get", s, signals[s].value)
    /\ UNCHANGED <<batchStack, edition, panicked, batchLog>>
    /\ UNCHANGED nonSigVars

\* ReadSignal::get_untracked
ReadGetUntracked(s) ==
    /\ ~panicked
    /\ s \in DOMAIN signals
    /\ ran' = <<>>
    /\ last' = Op("get_untracked", s, signals[s].value)
    /\ UNCHANGED <<NEXT_ID, signals, EFFECTS, memos, TRACKING, BATCHING,
                   PENDING_EFFECTS, batchStack, edition, panicked, written,
                   batchLog>>
    /\ UNCHANGED nonSigVars

\* WriteSignal::set(v)
WriteSet(s, v) ==
    /\ ~panicked
    /\ s \in DOMAIN signals
    /\ Commit(WriteSignal_set(NoteWrite(Cur, s, v), s, v))
    /\ last' = Op("set", s, NoRet)
    /\ batchLog' = LogWrite(s)
    /\ UNCHANGED <<batchStack, edition, panicked>>
    /\ UNCHANGED nonSigVars

\* WriteSignal::update(|c| *c += 1)
WriteUpdate(s) ==
    /\ ~panicked
    /\ s \in DOMAIN signals
    /\ signals[s].value < MaxVal
    /\ Commit(WriteSignal_update(NoteWrite(Cur, s, written[s] + 1), s))
    /\ last' = Op("update", s, NoRet)
    /\ batchLog' = LogWrite(s)
    /\ UNCHANGED <<batchStack, edition, panicked>>
    /\ UNCHANGED nonSigVars

\* WriteSignal::update(|c| { t.inner(); *c += 1 }) on signal s
InnerCalls == {"get", "get_untracked", "set", "update"}
UpdatedWith(s, t, G) ==
    /\ Commit(G)
    /\ panicked' = G.panic
    /\ last' = Op("update_with", s, NoRet)
    /\ batchLog' = LogWrite(s)
    /\ UNCHANGED <<batchStack, edition>>
    /\ UNCHANGED nonSigVars

WriteUpdateWith(s, t, inner) ==
    /\ ~panicked
    /\ s \in DOMAIN signals
    /\ t \in DOMAIN signals
    /\ signals[s].value < MaxVal
    /\ signals[t].value < MaxVal
    /\ UpdatedWith(s, t, WriteSignal_update_with(Cur, s, t, inner))

\* create_effect(cb)
CreateEffect(cb) ==
    /\ ~panicked
    /\ Len(EFFECTS) < MaxEffects
    /\ SignalsOf(cb) \subseteq DOMAIN signals
    /\ Commit(create_effect(Cur, cb))
    /\ last' = Op("create_effect", Len(EFFECTS) + 1, NoRet)
    /\ batchLog' = IF \E i \in DOMAIN cb : cb[i].op = "set_seen"
                   THEN LogWrite(2) ELSE batchLog
    /\ UNCHANGED <<batchStack, edition, panicked>>
    /\ UNCHANGED nonSigVars

\* Effect::dispose
Dispose(e) ==
    /\ ~panicked
    /\ e \in DOMAIN EFFECTS
    /\ EFFECTS[e].dependencies # {}
    /\ EFFECTS' = [EFFECTS EXCEPT ![e].dependencies = {}]
    /\ ran' = <<>>
    /\ last' = Op("dispose", e, NoRet)
    /\ UNCHANGED <<NEXT_ID, signals, memos, TRACKING, BATCHING,
                   PENDING_EFFECTS, batchStack, edition, panicked, written,
                   batchLog>>
    /\ UNCHANGED nonSigVars

\* create_memo(move || src.get() * 2)
CreateMemo(src) ==
    /\ ~panicked
    /\ Len(memos) < MaxMemos
    /\ src \in DOMAIN signals
    /\ memos' = Append(memos, NewMemo(NEXT_ID, src))
    /\ NEXT_ID' = NEXT_ID + 1
    /\ ran' = <<>>
    /\ last' = Op("create_memo", Len(memos) + 1, NoRet)
    /\ UNCHANGED <<signals, EFFECTS, TRACKING, BATCHING, PENDING_EFFECTS,
                   batchStack, edition, panicked, written, batchLog>>
    /\ UNCHANGED nonSigVars

\* Memo::get, called by the application outside any callback
MemoGet(m) ==
    /\ ~panicked
    /\ m \in DOMAIN memos
    /\ \E ed \in (IF edition = "unknown" THEN Editions ELSE {edition}) :
         LET r == Memo_get([Cur EXCEPT !.edition = ed], m) IN
         /\ Commit(r.G)
         /\ edition' = ed
         /\ panicked' = r.panic
         /\ last' = Op("memo_get", m, r.ret)
    /\ UNCHANGED <<batchStack, batchLog>>
    /\ UNCHANGED nonSigVars

\* Memo::get_untracked
MemoGetUntracked(m) ==
    /\ ~panicked
    /\ m \in DOMAIN memos
    /\ \E ed \in (IF edition = "unknown" THEN Editions ELSE {edition}) :
         LET r == Memo_get_untracked([Cur EXCEPT !.edition = ed], m) IN
         /\ Commit(r.G)
         /\ edition' = ed
         /\ panicked' = r.panic
         /\ last' = Op("memo_get_untracked", m, r.ret)
    /\ UNCHANGED <<batchStack, batchLog>>
    /\ UNCHANGED nonSigVars

\* batch(f) up to the call of f: `BATCHING.with(|b| b.replace(true))`
BatchEnter ==
    /\ ~panicked
    /\ Len(batchStack) < MaxBatchDepth
    /\ batchStack' = Append(batchStack, BATCHING)
    /\ BATCHING' = TRUE
    /\ batchLog' = IF batchStack = <<>> THEN NoLog ELSE batchLog
    /\ ran' = <<>>
    /\ last' = Op("batch_enter", Len(batchStack) + 1, NoRet)
    /\ UNCHANGED <<NEXT_ID, signals, EFFECTS, memos, TRACKING,
                   PENDING_EFFECTS, edition, panicked, written>>
    /\ UNCHANGED nonSigVars

\* batch(f) after f has returned
BatchExit ==
    /\ ~panicked
    /\ batchStack # <<>>
    /\ Commit(batch_leave(Cur, batchStack[Len(batchStack)]))
    /\ batchStack' = SubSeq(batchStack, 1, Len(batchStack) - 1)
    /\ batchLog' = IF Len(batchStack) = 1 THEN NoLog ELSE batchLog
    /\ last' = Op("batch_exit", Len(batchStack), NoRet)
    /\ UNCHANGED <<edition, panicked>>
    /\ UNCHANGED nonSigVars

\* The application works with signals, effects and batches.
EffNext ==
    \/ \E v \in InitialValues : CreateSignal(v)
    \/ \E s \in 1 .. MaxSignals : ReadGet(s)
    \/ \E s \in 1 .. MaxSignals : ReadGetUntracked(s)
    \/ \E s \in 1 .. MaxSignals, v \in Values : WriteSet(s, v)
    \/ \E s \in 1 .. MaxSignals : WriteUpdate(s)
    \/ \E cb \in Callbacks : CreateEffect(cb)
    \/ \E e \in 1 .. MaxEffects : Dispose(e)
    \/ BatchEnter
    \/ BatchExit

\* The application makes calls from inside closures: effects are created
\* and signals are read inside effect callbacks, signals are read and
\* written inside the closure of update.
NestNext ==
    \/ \E v \in InitialValues : CreateSignal(v)
    \/ \E s \in 1 .. MaxSignals : ReadGet(s)
    \/ \E s \in 1 .. MaxSignals, v \in Values : WriteSet(s, v)
    \/ \E cb \in NestingCallbacks : CreateEffect(cb)
    \/ \E s, t \in 1 .. MaxSignals, inner \in InnerCalls :
          WriteUpdateWith(s, t, inner)

\* The application works with signals and memos.
MemoNext ==
    \/ \E v \in InitialValues : CreateSignal(v)
    \/ \E s \in 1 .. MaxSignals, v \in Values : WriteSet(s, v)
    \/ \E s \in 1 .. MaxSignals : WriteUpdate(s)
    \/ \E s \in 1 .. MaxSignals : CreateMemo(s)
    \/ \E m \in 1 .. MaxMemos : MemoGet(m)
    \/ \E m \in 1 .. MaxMemos : MemoGetUntracked(m)

\* ------------------------------------------------------------ ids
\* NEXT_ID is one static for all threads, while the registries are
\* thread-local: what another thread does shows here only in NEXT_ID.  The
\* objects other threads hold are kept by their ids, up to MaxRemote; the
\* counter is followed up to MaxIds.
MaxRemote == 2
MaxIds == 4

IdInit ==
    /\ remote = <<>>
    /\ idArg = None

\* reset_id_counter(), from any thread
ResetIdCounter ==
    /\ ~panicked
    /\ NEXT_ID # 0
    /\ NEXT_ID' = 0
    /\ ran' = <<>>
    /\ last' = Op("reset_id_counter", 0, NoRet)
    /\ UNCHANGED <<signals, EFFECTS, memos, TRACKING, BATCHING,
                   PENDING_EFFECTS, batchStack, edition, panicked, written,
                   batchLog>>
    /\ UNCHANGED nonSigVars

\* create_id(): the next_id() that is the argument of create_signal
CreateIdArg ==
    /\ ~panicked
    /\ Len(signals) < MaxSignals
    /\ idArg = None
    /\ idArg' = Some(NEXT_ID)
    /\ NEXT_ID' = NEXT_ID + 1
    /\ UNCHANGED <<signals, EFFECTS, memos, TRACKING, BATCHING,
                   PENDING_EFFECTS, batchStack, edition, panicked, last, ran,
                   written, batchLog, remote>>
    /\ UNCHANGED <<layoutVars, textVars, focusVars>>

\* create_id(): create_signal with that argument
CreateIdSignal ==
    /\ idArg # None
    /\ signals' = Append(signals, [id |-> NEXT_ID, value |-> idArg[1],
                                   subscribers |-> <<>>])
    /\ NEXT_ID' = NEXT_ID + 1
    /\ written' = Append(written, idArg[1])
    /\ ran' = <<>>
    /\ last' = Op("create_id", Len(signals) + 1, NoRet)
    /\ idArg' = None
    /\ UNCHANGED <<EFFECTS, memos, TRACKING, BATCHING, PENDING_EFFECTS,
                   batchStack, edition, panicked, batchLog, remote>>
    /\ UNCHANGED <<layoutVars, textVars, focusVars>>

\* Another thread calls create_signal, create_effect or create_memo: the
\* object it makes takes the id that next_id() returns.
RemoteCreate ==
    /\ Len(remote) < MaxRemote
    /\ remote' = Append(remote, NEXT_ID)
    /\ NEXT_ID' = NEXT_ID + 1
    /\ UNCHANGED <<signals, EFFECTS, memos, TRACKING, BATCHING,
                   PENDING_EFFECTS, batchStack, edition, panicked, last, ran,
                   written, batchLog, idArg>>
    /\ UNCHANGED <<layoutVars, textVars, focusVars>>

\* This thread is not inside create_id and the counter is below MaxIds.
AtCall == idArg = None /\ NEXT_ID < MaxIds

IdNext ==
    \/ AtCall /\ \E initial \in InitialValues : CreateSignal(initial)
    \/ AtCall /\ \E cb \in Callbacks : CreateEffect(cb)
    \/ AtCall /\ \E s \in 1 .. MaxSignals : CreateMemo(s)
    \/ AtCall /\ CreateIdArg
    \/ CreateIdSignal
    \/ NEXT_ID < MaxIds /\ RemoteCreate
    \/ ResetIdCounter

\* =====================================================================
\* The layout calculator (src/core/layout.rs)
\* =====================================================================

\* ------------------------------------------------------------ f32
\* A non-negative f32 is m * 2^(-k) with m below 2^24.  The operands the
\* calculator converts (`as f32`) are u16, hence exact.
Pow2(n) == 2 ^ n

F32Mantissa == 24

\* n / d rounded to an integer, ties to even (n >= 0, d > 0).
DivRoundEven(n, d) ==
    LET q == n \div d
        r == n % d
    IN IF 2 * r > d \/ (2 * r = d /\ q % 2 = 1) THEN q + 1 ELSE q

\* a * 2^k >= b * 2^(mantissa - 1), without leaving the integers at hand.
Normal(a, b, k) ==
    a >= (b * Pow2(F32Mantissa - 1) + Pow2(k) - 1) \div Pow2(k)

Scaled(a, b, k) == [m |-> DivRoundEven(a * Pow2(k), b), k |-> k]

\* The f32 quotient a / b of two exactly represented integers (b > 0):
\* the mantissa is scaled into [2^23, 2^24) and rounded to nearest even.
F32Div(a, b) ==
    IF a = 0 THEN [m |-> 0, k |-> 0]
    ELSE Scaled(a, b, CHOOSE e \in 0 .. 30 :
                          Normal(a, b, e) /\ (e = 0 \/ ~Normal(a, b, e - 1)))

\* The product p * 2^(-k), which has j bits too many, as an f32.
Renormal(p, j, k) ==
    IF j = 0 THEN [m |-> p, k |-> k]
    ELSE IF j <= k
         THEN [m |-> DivRoundEven(p, Pow2(j)), k |-> k - j]
         ELSE [m |-> DivRoundEven(p, Pow2(j)) * Pow2(j - k), k |-> 0]

TooWide(p) ==
    CHOOSE e \in 0 .. 6 :
        p < Pow2(F32Mantissa + e)
          /\ (e = 0 \/ p >= Pow2(F32Mantissa + e - 1))

\* The f32 product of the integer w (exact as f32) and the f32 x.
F32MulInt(w, x) == Renormal(w * x.m, TooWide(w * x.m), x.k)

U16Max == 65535

Saturated(n) == IF n > U16Max THEN U16Max ELSE n

\* m / d to the nearest integer, ties away from zero.
RoundAway(m, d) == IF 2 * (m % d) >= d THEN m \div d + 1 ELSE m \div d

\* `x.round() as u16`: to the nearest integer, ties away from zero, then
\* the saturating cast.
F32RoundU16(x) == Saturated(RoundAway(x.m, Pow2(x.k)))

\* ((parent as f32) * p / 100.0).round() as u16
PercentOf(parent, p) == F32RoundU16(F32Div(parent * p, 100))

\* a.saturating_sub(b)
saturating_sub(a, b) == IF a > b THEN a - b ELSE 0

\* A u16 `+`, `*` or sum whose exact value is n: with overflow checks on
\* (the default of a debug build) it panics when n does not fit, with
\* overflow checks off (the default of a release build) it yields n
\* modulo 2^16.
overflows(n) == n > U16Max
wrapping(n) == n % (U16Max + 1)

\* ------------------------------------------------------------ types
Auto == [kind |-> "Auto", v |-> 0]
Fill == [kind |-> "Fill", v |-> 0]
Fixed(v) == [kind |-> "Fixed", v |-> v]
Percent(p) == [kind |-> "Percent", v |-> p]

\* FlexDirection::is_row, FlexDirection::is_reversed
is_row(d) == d \in {"Row", "RowReverse"}
is_reversed(d) == d \in {"RowReverse", "ColumnReverse"}

\* Edges::all, Edges::horizontal, Edges::vertical
Edges_all(v) == [top |-> v, right |-> v, bottom |-> v, left |-> v]
horizontal(e) == wrapping(e.left + e.right)
vertical(e) == wrapping(e.top + e.bottom)

\* LayoutStyle::new(): display on, every other field its Default.
LayoutStyle_new ==
    [display |-> TRUE, flex_direction |-> "Row",
     justify_content |-> "FlexStart", align_items |-> "Stretch",
     gap |-> 0, align_self |-> "Auto", flex_grow |-> 0,
     flex_basis |-> Auto, width |-> Auto, height |-> Auto,
     min_width |-> None, min_height |-> None,
     max_width |-> None, max_height |-> None,
     padding |-> Edges_all(0), border_width |-> 0,
     position_x |-> None, position_y |-> None]

\* LayoutNode::new(id), LayoutNode::text(id, width, height)
LayoutNode_new(id) ==
    [id |-> id, style |-> LayoutStyle_new, children |-> <<>>,
     content_size |-> <<0, 0>>]
LayoutNode_text(id, w, h) ==
    [id |-> id, style |-> LayoutStyle_new, children |-> <<>>,
     content_size |-> <<w, h>>]

Rect(x, y, w, h) == [x |-> x, y |-> y, width |-> w, height |-> h]

\* HashMap::insert: a later entry for the same id replaces the earlier one.
insert(layouts, id, rect) == (id :> rect) @@ layouts

\* ------------------------------------------------------------ sizes
Min(a, b) == IF a < b THEN a ELSE b
Max(a, b) == IF a > b THEN a ELSE b

\* apply_constraints
apply_constraints(value, min, max) ==
    LET r1 == IF min # None THEN Max(value, min[1]) ELSE value
    IN IF max # None THEN Min(r1, max[1]) ELSE r1

\* padding.horizontal() + border_width * 2, padding.vertical() + ...
padding_h(style) ==
    wrapping(horizontal(style.padding) + wrapping(style.border_width * 2))
padding_v(style) ==
    wrapping(vertical(style.padding) + wrapping(style.border_width * 2))

\* `let base_width = match style.width`
base_width(child, parent_width, isRow) ==
    CASE child.style.width.kind = "Fixed" -> child.style.width.v
      [] child.style.width.kind = "Percent" ->
           PercentOf(parent_width, child.style.width.v)
      [] child.style.width.kind = "Auto" ->
           IF child.children = <<>>
           THEN wrapping(child.content_size[1] + padding_h(child.style))
           ELSE padding_h(child.style)
      [] child.style.width.kind = "Fill" ->
           IF isRow THEN 0 ELSE parent_width

\* `let base_height = match style.height`
base_height(child, parent_height, isRow) ==
    CASE child.style.height.kind = "Fixed" -> child.style.height.v
      [] child.style.height.kind = "Percent" ->
           PercentOf(parent_height, child.style.height.v)
      [] child.style.height.kind = "Auto" ->
           IF child.children = <<>>
           THEN wrapping(child.content_size[2] + padding_v(child.style))
           ELSE padding_v(child.style)
      [] child.style.height.kind = "Fill" ->
           IF isRow THEN parent_height ELSE 0

\* `let (final_w, final_h) = match style.flex_basis`
apply_flex_basis(basis, bw, bh, parent_main, isRow) ==
    CASE basis.kind = "Fixed" ->
           IF isRow THEN <<basis.v, bh>> ELSE <<bw, basis.v>>
      [] basis.kind = "Percent" ->
           IF isRow THEN <<PercentOf(parent_main, basis.v), bh>>
           ELSE <<bw, PercentOf(parent_main, basis.v)>>
      [] OTHER -> <<bw, bh>>

constrained(style, wh) ==
    <<apply_constraints(wh[1], style.min_width, style.max_width),
      apply_constraints(wh[2], style.min_height, style.max_height)>>

\* calculate_child_base_size: <<width, height>>
calculate_child_base_size(child, parent_width, parent_height, isRow) ==
    constrained(child.style,
        apply_flex_basis(child.style.flex_basis,
                         base_width(child, parent_width, isRow),
                         base_height(child, parent_height, isRow),
                         IF isRow THEN parent_width ELSE parent_height,
                         isRow))

RECURSIVE SumSeq(_)
SumSeq(q) == IF q = <<>> THEN 0 ELSE Head(q) + SumSeq(Tail(q))

\* node.children.iter().filter(|c| c.style.display)
visible_children(node) ==
    SelectSeq(node.children, LAMBDA c : c.style.display)

\* The main-axis component of a <<width, height>> pair.
MainOf(node, wh) == IF is_row(node.style.flex_direction) THEN wh[1] ELSE wh[2]
CrossOf(node, wh) == IF is_row(node.style.flex_direction) THEN wh[2] ELSE wh[1]

TotalMain(node, sizes) ==
    wrapping(SumSeq([i \in DOMAIN sizes |-> MainOf(node, sizes[i])]))

\* The first loop of layout_children: the base size of every visible child.
child_sizes(node, inner_width, inner_height) ==
    [i \in DOMAIN visible_children(node) |->
        calculate_child_base_size(visible_children(node)[i], inner_width,
                                  inner_height,
                                  is_row(node.style.flex_direction))]

\* gap * (child_count.saturating_sub(1)) as u16
total_gap(node) ==
    wrapping(node.style.gap
               * wrapping(saturating_sub(Len(visible_children(node)), 1)))

\* main_size.saturating_sub(total_base_size + total_gap)
remaining(node, main_size, sizes) ==
    saturating_sub(main_size,
                   wrapping(TotalMain(node, sizes) + total_gap(node)))

total_flex_grow(node) ==
    SumSeq([i \in DOMAIN visible_children(node) |->
              visible_children(node)[i].style.flex_grow])

\* (child.style.flex_grow * flex_unit).round() as u16, with
\* flex_unit = remaining / total_flex_grow, or 0.0 when nothing grows
grow_amount(flex_grow, rem, total) ==
    IF total > 0
    THEN F32RoundU16(F32MulInt(flex_grow, F32Div(rem, total)))
    ELSE 0

Grown(node, wh, g) ==
    IF is_row(node.style.flex_direction)
    THEN <<wrapping(wh[1] + g), wh[2]>>
    ELSE <<wh[1], wrapping(wh[2] + g)>>

\* The second loop of layout_children: base size plus grow amount.
final_sizes(node, sizes, rem) ==
    [i \in DOMAIN sizes |->
        Grown(node, sizes[i],
              grow_amount(visible_children(node)[i].style.flex_grow, rem,
                          total_flex_grow(node)))]

\* main_size.saturating_sub(total_final_main + total_gap)
extra_space(node, main_size, finals) ==
    saturating_sub(main_size,
                   wrapping(TotalMain(node, finals) + total_gap(node)))

\* The match on justify_content: <<main_pos, space_between>>.
SpaceAroundUnit(extra, child_count) == extra \div (child_count * 2)

justify(jc, extra, child_count) ==
    CASE jc = "FlexStart" -> <<0, 0>>
      [] jc = "FlexEnd" -> <<extra, 0>>
      [] jc = "Center" -> <<extra \div 2, 0>>
      [] jc = "SpaceBetween" ->
           <<0, IF child_count > 1 THEN extra \div (child_count - 1) ELSE 0>>
      [] jc = "SpaceAround" ->
           <<SpaceAroundUnit(extra, child_count),
             wrapping(SpaceAroundUnit(extra, child_count) * 2)>>
      [] jc = "SpaceEvenly" ->
           <<extra \div (child_count + 1), extra \div (child_count + 1)>>

\* (0..child_count) whatever the direction, one-based
order_forward(node) ==
    [k \in 1 .. Len(visible_children(node)) |-> k]

\* (0..child_count).rev() or (0..child_count), one-based
order(node) ==
    IF is_reversed(node.style.flex_direction)
    THEN [k \in 1 .. Len(visible_children(node)) |->
            Len(visible_children(node)) + 1 - k]
    ELSE [k \in 1 .. Len(visible_children(node)) |-> k]

\* The match on align_self
effective_align(parent, child) ==
    IF child.style.align_self = "Auto"
    THEN parent.style.align_items
    ELSE child.style.align_self

cross_pos(align, cross_size, child_cross) ==
    CASE align = "FlexEnd" -> saturating_sub(cross_size, child_cross)
      [] align = "Center" -> saturating_sub(cross_size, child_cross) \div 2
      [] OTHER -> 0

stretched_cross(align, cross_size, child_cross) ==
    IF align = "Stretch" THEN cross_size ELSE child_cross

\* `let (child_x, child_y, final_w, final_h) = if is_row`: what the
\* container hands to the child's calculate_node_layout.
Allotted(isRow, inner_x, inner_y, main_pos, cpos, child_main, stretched) ==
    IF isRow
    THEN Rect(wrapping(inner_x + main_pos), wrapping(inner_y + cpos),
              child_main, stretched)
    ELSE Rect(wrapping(inner_x + cpos), wrapping(inner_y + main_pos),
              stretched, child_main)

allot(node, child, wh, main_pos, inner_x, inner_y, cross_size) ==
    Allotted(is_row(node.style.flex_direction), inner_x, inner_y, main_pos,
             cross_pos(effective_align(node, child), cross_size,
                       CrossOf(node, wh)),
             MainOf(node, wh),
             stretched_cross(effective_align(node, child), cross_size,
                             CrossOf(node, wh)))

\* The width and the height that calculate_node_layout stores.
node_width(node, available_width) ==
    CASE node.style.width.kind = "Fixed" -> node.style.width.v
      [] node.style.width.kind = "Percent" ->
           PercentOf(available_width, node.style.width.v)
      [] OTHER -> available_width

node_height(node, available_height) ==
    CASE node.style.height.kind = "Fixed" -> node.style.height.v
      [] node.style.height.kind = "Percent" ->
           PercentOf(available_height, node.style.height.v)
      [] OTHER ->
           IF node.children = <<>>
           THEN wrapping(node.content_size[2] + padding_v(node.style))
           ELSE available_height

node_size(node, available_width, available_height) ==
    constrained(node.style, <<node_width(node, available_width),
                              node_height(node, available_height)>>)

\* style.position_x.unwrap_or(x)
unwrap_or(opt, v) == IF opt # None THEN opt[1] ELSE v

\* main_pos += child_main + gap + space_between
advanced(main_pos, child_main, gap, space_between) ==
    wrapping(main_pos + wrapping(wrapping(child_main + gap) + space_between))

\* final_x + style.padding.left + style.border_width, and so for y
inner_origin(final, padding, border_width) ==
    wrapping(wrapping(final + padding) + border_width)

RECURSIVE calculate_node_layout(_, _, _, _, _, _)
RECURSIVE position_children(_, _, _, _, _, _, _, _, _)

\* The `for (iter_idx, &i) in order.iter().enumerate()` loop, from iter_idx
\* k on, with main_pos as left by the children placed so far.
position_children(node, k, main_pos, space_between, inner_x, inner_y, cross_size, finals, layouts) ==
    IF k > Len(finals) THEN layouts
    ELSE position_children(
             node, k + 1,
             advanced(main_pos, MainOf(node, finals[order(node)[k]]),
                      node.style.gap, space_between),
             space_between, inner_x, inner_y, cross_size, finals,
             calculate_node_layout(
                 visible_children(node)[order(node)[k]],
                 allot(node, visible_children(node)[order(node)[k]],
                       finals[order(node)[k]], main_pos, inner_x, inner_y,
                       cross_size).x,
                 allot(node, visible_children(node)[order(node)[k]],
                       finals[order(node)[k]], main_pos, inner_x, inner_y,
                       cross_size).y,
                 allot(node, visible_children(node)[order(node)[k]],
                       finals[order(node)[k]], main_pos, inner_x, inner_y,
                       cross_size).width,
                 allot(node, visible_children(node)[order(node)[k]],
                       finals[order(node)[k]], main_pos, inner_x, inner_y,
                       cross_size).height,
                 layouts))

justified(node, main_size, finals) ==
    justify(node.style.justify_content,
            extra_space(node, main_size, finals),
            Len(visible_children(node)))

positioned(node, inner_x, inner_y, main_size, cross_size, finals, layouts) ==
    position_children(node, 1,
                      justified(node, main_size, finals)[1],
                      justified(node, main_size, finals)[2],
                      inner_x, inner_y, cross_size, finals, layouts)

sized(node, inner_x, inner_y, main_size, cross_size, sizes, layouts) ==
    positioned(node, inner_x, inner_y, main_size, cross_size,
               final_sizes(node, sizes, remaining(node, main_size, sizes)),
               layouts)

\* layout_children
layout_children(node, inner_x, inner_y, inner_width, inner_height, layouts) ==
    IF Len(visible_children(node)) = 0 THEN layouts
    ELSE sized(node, inner_x, inner_y,
               MainOf(node, <<inner_width, inner_height>>),
               CrossOf(node, <<inner_width, inner_height>>),
               child_sizes(node, inner_width, inner_height), layouts)

\* The part of calculate_node_layout after width, height, final_x and
\* final_y are known.
stored(node, final_x, final_y, size, layouts) ==
    IF node.children = <<>>
    THEN insert(layouts, node.id, Rect(final_x, final_y, size[1], size[2]))
    ELSE layout_children(
             node,
             inner_origin(final_x, node.style.padding.left,
                          node.style.border_width),
             inner_origin(final_y, node.style.padding.top,
                          node.style.border_width),
             saturating_sub(size[1], padding_h(node.style)),
             saturating_sub(size[2], padding_v(node.style)),
             insert(layouts, node.id,
                    Rect(final_x, final_y, size[1], size[2])))

\* calculate_node_layout
calculate_node_layout(node, x, y, available_width, available_height, layouts) ==
    IF ~node.style.display THEN layouts
    ELSE stored(node,
                unwrap_or(node.style.position_x, x),
                unwrap_or(node.style.position_y, y),
                node_size(node, available_width, available_height),
                layouts)

\* calculate_layout
calculate_layout(node, available_width, available_height) ==
    calculate_node_layout(node, 0, 0, available_width, available_height,
                          <<>>)

\* ------------------------------------------------------------ overflow
\* Whether some u16 operation of the call overflows.  An operand that an
\* earlier operation produced is taken as wrapped: up to the first overflow
\* that is its exact value, and the first overflow is all that is asked.

\* padding.horizontal() + border_width * 2 and padding.vertical() + ...
padding_overflows(style) ==
    \/ overflows(style.padding.left + style.padding.right)
    \/ overflows(style.padding.top + style.padding.bottom)
    \/ overflows(style.border_width * 2)
    \/ overflows(horizontal(style.padding) + wrapping(style.border_width * 2))
    \/ overflows(vertical(style.padding) + wrapping(style.border_width * 2))

\* calculate_child_base_size
base_size_overflows(child) ==
    \/ padding_overflows(child.style)
    \/ /\ child.style.width.kind = "Auto"
       /\ child.children = <<>>
       /\ overflows(child.content_size[1] + padding_h(child.style))
    \/ /\ child.style.height.kind = "Auto"
       /\ child.children = <<>>
       /\ overflows(child.content_size[2] + padding_v(child.style))

\* calculate_node_layout up to `layouts.insert`
node_size_overflows(node) ==
    \/ padding_overflows(node.style)
    \/ /\ node.style.height.kind \in {"Auto", "Fill"}
       /\ node.children = <<>>
       /\ overflows(node.content_size[2] + padding_v(node.style))

\* final_x + style.padding.left + style.border_width, and so for y
inner_origin_overflows(final, padding, border_width) ==
    \/ overflows(final + padding)
    \/ overflows(wrapping(final + padding) + border_width)

\* layout_children from `total_base_size += base_main` to the match on
\* justify_content
sums_overflow(node, main_size, sizes, finals) ==
    \/ \E i \in DOMAIN sizes : base_size_overflows(visible_children(node)[i])
    \/ overflows(SumSeq([i \in DOMAIN sizes |-> MainOf(node, sizes[i])]))
    \/ overflows(node.style.gap
                   * wrapping(saturating_sub(Len(visible_children(node)), 1)))
    \/ overflows(TotalMain(node, sizes) + total_gap(node))
    \/ \E i \in DOMAIN sizes :
         overflows(MainOf(node, sizes[i])
                     + grow_amount(visible_children(node)[i].style.flex_grow,
                                   remaining(node, main_size, sizes),
                                   total_flex_grow(node)))
    \/ overflows(SumSeq([i \in DOMAIN finals |-> MainOf(node, finals[i])]))
    \/ overflows(TotalMain(node, finals) + total_gap(node))
    \/ /\ node.style.justify_content = "SpaceAround"
       /\ overflows(SpaceAroundUnit(extra_space(node, main_size, finals),
                                    Len(visible_children(node))) * 2)

\* inner_x + main_pos, inner_y + cross_pos (Row) or inner_x + cross_pos,
\* inner_y + main_pos (Column)
position_overflows(isRow, inner_x, inner_y, main_pos, cpos) ==
    IF isRow
    THEN overflows(inner_x + main_pos) \/ overflows(inner_y + cpos)
    ELSE overflows(inner_x + cpos) \/ overflows(inner_y + main_pos)

\* main_pos += child_main + gap + space_between
advance_overflows(main_pos, child_main, gap, space_between) ==
    \/ overflows(child_main + gap)
    \/ overflows(wrapping(child_main + gap) + space_between)
    \/ overflows(main_pos
                   + wrapping(wrapping(child_main + gap) + space_between))

RECURSIVE node_overflows(_, _, _, _, _)
RECURSIVE children_overflow(_, _, _, _, _, _, _, _)

\* The `for (iter_idx, &i) in order.iter().enumerate()` loop from iter_idx
\* k on.
children_overflow(node, k, main_pos, space_between, inner_x, inner_y, cross_size, finals) ==
    IF k > Len(finals) THEN FALSE
    ELSE \/ position_overflows(
                is_row(node.style.flex_direction), inner_x, inner_y, main_pos,
                cross_pos(effective_align(node,
                                          visible_children(node)[order(node)[k]]),
                          cross_size, CrossOf(node, finals[order(node)[k]])))
         \/ node_overflows(
                visible_children(node)[order(node)[k]],
                allot(node, visible_children(node)[order(node)[k]],
                      finals[order(node)[k]], main_pos, inner_x, inner_y,
                      cross_size).x,
                allot(node, visible_children(node)[order(node)[k]],
                      finals[order(node)[k]], main_pos, inner_x, inner_y,
                      cross_size).y,
                allot(node, visible_children(node)[order(node)[k]],
                      finals[order(node)[k]], main_pos, inner_x, inner_y,
                      cross_size).width,
                allot(node, visible_children(node)[order(node)[k]],
                      finals[order(node)[k]], main_pos, inner_x, inner_y,
                      cross_size).height)
         \/ advance_overflows(main_pos, MainOf(node, finals[order(node)[k]]),
                              node.style.gap, space_between)
         \/ children_overflow(
                node, k + 1,
                advanced(main_pos, MainOf(node, finals[order(node)[k]]),
                         node.style.gap, space_between),
                space_between, inner_x, inner_y, cross_size, finals)

overflow_positioned(node, inner_x, inner_y, main_size, cross_size, sizes, finals) ==
    \/ sums_overflow(node, main_size, sizes, finals)
    \/ children_overflow(node, 1,
                         justified(node, main_size, finals)[1],
                         justified(node, main_size, finals)[2],
                         inner_x, inner_y, cross_size, finals)

overflow_sized(node, inner_x, inner_y, main_size, cross_size, sizes) ==
    overflow_positioned(
        node, inner_x, inner_y, main_size, cross_size, sizes,
        final_sizes(node, sizes, remaining(node, main_size, sizes)))

\* layout_children
layout_children_overflows(node, inner_x, inner_y, inner_width, inner_height) ==
    IF Len(visible_children(node)) = 0 THEN FALSE
    ELSE overflow_sized(node, inner_x, inner_y,
                        MainOf(node, <<inner_width, inner_height>>),
                        CrossOf(node, <<inner_width, inner_height>>),
                        child_sizes(node, inner_width, inner_height))

\* The part of calculate_node_layout after `layouts.insert`.
stored_overflows(node, final_x, final_y, size) ==
    /\ node.children # <<>>
    /\ \/ inner_origin_overflows(final_x, node.style.padding.left,
                                 node.style.border_width)
       \/ inner_origin_overflows(final_y, node.style.padding.top,
                                 node.style.border_width)
       \/ layout_children_overflows(
              node,
              inner_origin(final_x, node.style.padding.left,
                           node.style.border_width),
              inner_origin(final_y, node.style.padding.top,
                           node.style.border_width),
              saturating_sub(size[1], padding_h(node.style)),
              saturating_sub(size[2], padding_v(node.style)))

\* calculate_node_layout
node_overflows(node, x, y, available_width, available_height) ==
    /\ node.style.display
    /\ \/ node_size_overflows(node)
       \/ stored_overflows(node,
                           unwrap_or(node.style.position_x, x),
                           unwrap_or(node.style.position_y, y),
                           node_size(node, available_width, available_height))

\* calculate_layout as the build runs it: with overflow checks a call in
\* which a u16 operation overflows panics and its map is dropped.
calculate_layout_checked(checks, node, available_width, available_height) ==
    IF checks /\ node_overflows(node, 0, 0, available_width, available_height)
    THEN [panic |-> TRUE, layouts |-> <<>>]
    ELSE [panic |-> FALSE,
          layouts |-> calculate_layout(node, available_width,
                                       available_height)]

\* Whether the build has overflow checks: it shows only in a call in which
\* something overflows.
OverflowChecks(node, a) ==
    IF node_overflows(node, 0, 0, a[1], a[2]) THEN BOOLEAN ELSE {FALSE}

\* ------------------------------------------------------------ actions
\* The root is a container; a child is a text leaf, or a container that
\* holds one text leaf.
Kinds == {"text", "container"}
Directions == {"Row", "RowReverse", "Column", "ColumnReverse"}
Justifications ==
    {"FlexStart", "FlexEnd", "Center", "SpaceBetween", "SpaceAround",
     "SpaceEvenly"}
GapChoices == {2}
GrowChoices == {1, 2}
SizeChoices == {Fixed(5), Percent(50), Fill}
BasisChoices == {Fixed(7), Percent(25)}
PositionChoices == {7}
AvailChoices == {<<80, 24>>, <<100, 10>>}

NewChild(kind, i) ==
    IF kind = "text" THEN LayoutNode_text(i, 10 * i, i)
    ELSE [LayoutNode_new(i) EXCEPT
            !.children = <<LayoutNode_text(10 * i + 1, 4, 1)>>]

\* The number of style fields that differ from LayoutStyle::new().
StyledFields(style) ==
    Cardinality({f \in DOMAIN style : style[f] # LayoutStyle_new[f]})

Styled ==
    StyledFields(tree.style)
      + SumSeq([i \in DOMAIN tree.children |->
                  StyledFields(tree.children[i].style)])

NoLayout == <<>>

LayoutInit ==
    /\ tree = LayoutNode_new(0)
    /\ avail = <<0, 0>>
    /\ result = NoLayout

\* Any change to the tree: the earlier result is dropped with it.
Rebuild(t) ==
    /\ ~panicked
    /\ tree' = t
    /\ avail' = <<0, 0>>
    /\ result' = NoLayout
    /\ UNCHANGED nonLayoutVars

CanStyle == Styled < MaxStyled

\* LayoutNode::add_child
AddChild(kind) ==
    /\ Len(tree.children) < MaxChildren
    /\ Rebuild([tree EXCEPT !.children =
                  Append(@, NewChild(kind, Len(tree.children) + 1))])

SetFlexDirection(d) ==
    /\ CanStyle
    /\ tree.style.flex_direction = LayoutStyle_new.flex_direction
    /\ d # LayoutStyle_new.flex_direction
    /\ Rebuild([tree EXCEPT !.style.flex_direction = d])

SetJustifyContent(j) ==
    /\ CanStyle
    /\ tree.style.justify_content = LayoutStyle_new.justify_content
    /\ j # LayoutStyle_new.justify_content
    /\ Rebuild([tree EXCEPT !.style.justify_content = j])

SetGap(g) ==
    /\ CanStyle
    /\ tree.style.gap = LayoutStyle_new.gap
    /\ Rebuild([tree EXCEPT !.style.gap = g])

SetFlexGrow(c, w) ==
    /\ CanStyle
    /\ c \in DOMAIN tree.children
    /\ tree.children[c].style.flex_grow = LayoutStyle_new.flex_grow
    /\ Rebuild([tree EXCEPT !.children[c].style.flex_grow = w])

SetWidth(c, size) ==
    /\ CanStyle
    /\ c \in DOMAIN tree.children
    /\ tree.children[c].style.width = LayoutStyle_new.width
    /\ Rebuild([tree EXCEPT !.children[c].style.width = size])

SetHeight(c, size) ==
    /\ CanStyle
    /\ c \in DOMAIN tree.children
    /\ tree.children[c].style.height = LayoutStyle_new.height
    /\ Rebuild([tree EXCEPT !.children[c].style.height = size])

SetFlexBasis(c, size) ==
    /\ CanStyle
    /\ c \in DOMAIN tree.children
    /\ tree.children[c].style.flex_basis = LayoutStyle_new.flex_basis
    /\ Rebuild([tree EXCEPT !.children[c].style.flex_basis = size])

SetDisplay(c) ==
    /\ CanStyle
    /\ c \in DOMAIN tree.children
    /\ tree.children[c].style.display
    /\ Rebuild([tree EXCEPT !.children[c].style.display = FALSE])

\* display = false on the child of a container child
SetDisplayIn(c) ==
    /\ CanStyle
    /\ c \in DOMAIN tree.children
    /\ tree.children[c].children # <<>>
    /\ tree.children[c].children[1].style.display
    /\ Rebuild([tree EXCEPT !.children[c].children[1].style.display = FALSE])

SetPositionX(c, v) ==
    /\ CanStyle
    /\ c \in DOMAIN tree.children
    /\ tree.children[c].style.position_x = None
    /\ Rebuild([tree EXCEPT !.children[c].style.position_x = Some(v)])

SetPositionY(c, v) ==
    /\ CanStyle
    /\ c \in DOMAIN tree.children
    /\ tree.children[c].style.position_y = None
    /\ Rebuild([tree EXCEPT !.children[c].style.position_y = Some(v)])

\* add_child of a text node that was given a flex_grow weight
MaxGrowChildren == 4
AddGrowing(w) ==
    /\ Len(tree.children) < MaxGrowChildren
    /\ Rebuild([tree EXCEPT !.children =
                  Append(@, [LayoutNode_text(Len(tree.children) + 1, 10, 1)
                               EXCEPT !.style.flex_grow = w])])

\* Available sizes around the space that MaxGrowChildren such children take.
MaxSpare == 6
GrowAvailChoices ==
    {<<10 * MaxGrowChildren + s, MaxGrowChildren + 2>> : s \in 0 .. MaxSpare}

\* calculate_layout(&tree, a[1], a[2])
CalculateLayout(a) ==
    /\ ~panicked
    /\ avail' = a
    /\ \E checks \in OverflowChecks(tree, a) :
         /\ result' =
                calculate_layout_checked(checks, tree, a[1], a[2]).layouts
         /\ panicked' =
                calculate_layout_checked(checks, tree, a[1], a[2]).panic
    /\ UNCHANGED <<tree, sigRest, textVars, focusVars, idVars>>

\* The application builds a tree and asks for its layout.
LayoutNext ==
    \/ \E kind \in Kinds : AddChild(kind)
    \/ \E d \in Directions : SetFlexDirection(d)
    \/ \E j \in Justifications : SetJustifyContent(j)
    \/ \E g \in GapChoices : SetGap(g)
    \/ \E c \in 1 .. MaxChildren, w \in GrowChoices : SetFlexGrow(c, w)
    \/ \E c \in 1 .. MaxChildren, size \in SizeChoices : SetWidth(c, size)
    \/ \E c \in 1 .. MaxChildren, size \in SizeChoices : SetHeight(c, size)
    \/ \E c \in 1 .. MaxChildren, size \in BasisChoices : SetFlexBasis(c, size)
    \/ \E c \in 1 .. MaxChildren : SetDisplay(c)
    \/ \E c \in 1 .. MaxChildren : SetDisplayIn(c)
    \/ \E c \in 1 .. MaxChildren, v \in PositionChoices : SetPositionX(c, v)
    \/ \E c \in 1 .. MaxChildren, v \in PositionChoices : SetPositionY(c, v)
    \/ \E a \in AvailChoices : CalculateLayout(a)

\* The application builds a row or a column of growing children.
GrowNext ==
    \/ \E w \in GrowChoices : AddGrowing(w)
    \/ \E d \in Directions : SetFlexDirection(d)
    \/ \E g \in GapChoices : SetGap(g)
    \/ \E a \in GrowAvailChoices : CalculateLayout(a)

\* ------------------------------------------------- a styled container
\* The application gives the container its whole style at once and adds up
\* to MaxItems children to it.
MaxItems == 3
Alignments == {"FlexStart", "FlexEnd", "Center", "Stretch", "Baseline"}
ItemGapChoices == {0, 2}
ItemAvailChoices == {<<80, 24>>, <<65, 9>>, <<25, 2>>}

\* LayoutStyle::new().flex_direction(d).justify_content(j).align_items(a)
\*     .gap(g)
styled_container(d, j, a, g) ==
    [LayoutStyle_new EXCEPT !.flex_direction = d, !.justify_content = j,
                            !.align_items = a, !.gap = g]

\* LayoutNode::with_style
WithStyle(d, j, a, g) ==
    /\ tree.style = LayoutStyle_new
    /\ Rebuild([tree EXCEPT !.style = styled_container(d, j, a, g)])

\* LayoutNode::add_child
AddItem(kind) ==
    /\ Len(tree.children) < MaxItems
    /\ Rebuild([tree EXCEPT !.children =
                  Append(@, NewChild(kind, Len(tree.children) + 1))])

ItemNext ==
    \/ \E kind \in Kinds : AddItem(kind)
    \/ \E d \in Directions, j \in Justifications, a \in Alignments,
          g \in ItemGapChoices : WithStyle(d, j, a, g)
    \/ \E a \in ItemAvailChoices : CalculateLayout(a)

\* ------------------------------------------------- sizes near u16::MAX
WideSizeChoices == {Fixed(40000)}
WideGapChoices == {2, 40000}
WidePaddingChoices == {1, 40000}
WideAvailChoices == {<<80, 24>>, <<U16Max, U16Max>>}

\* LayoutStyle::padding on the container
SetPadding(v) ==
    /\ CanStyle
    /\ tree.style.padding = LayoutStyle_new.padding
    /\ Rebuild([tree EXCEPT !.style.padding = Edges_all(v)])

WideNext ==
    \/ \E kind \in Kinds : AddChild(kind)
    \/ \E d \in Directions : SetFlexDirection(d)
    \/ \E g \in WideGapChoices : SetGap(g)
    \/ \E v \in WidePaddingChoices : SetPadding(v)
    \/ \E c \in 1 .. MaxChildren, w \in GrowChoices : SetFlexGrow(c, w)
    \/ \E c \in 1 .. MaxChildren, size \in WideSizeChoices : SetWidth(c, size)
    \/ \E a \in WideAvailChoices : CalculateLayout(a)

\* =====================================================================
\* Strings and ANSI escape codes (src/utils/ansi.rs)
\* =====================================================================

\* A String is the sequence of its chars; a char is a one-letter string,
\* the escape character U+001B is "ESC" and the line feed is "LF".
ESC == "ESC"
LF == "LF"

Lower ==
    {"a", "b", "c", "d", "e", "f", "g", "h", "i", "j", "k", "l", "m", "n",
     "o", "p", "q", "r", "s", "t", "u", "v", "w", "x", "y", "z"}
Upper ==
    {"A", "B", "C", "D", "E", "F", "G", "H", "I", "J", "K", "L", "M", "N",
     "O", "P", "Q", "R", "S", "T", "U", "V", "W", "X", "Y", "Z"}

\* char::is_ascii_alphabetic
is_ascii_alphabetic(c) == c \in Lower \cup Upper

Digits == <<"0", "1", "2", "3", "4", "5", "6", "7", "8", "9">>

RECURSIVE Decimal(_)
\* format!("{}", n) for an unsigned n
Decimal(n) ==
    IF n < 10 THEN <<Digits[n + 1]>>
    ELSE Decimal(n \div 10) \o <<Digits[(n % 10) + 1]>>

RECURSIVE join(_, _)
\* codes.join(sep)
join(codes, sep) ==
    IF codes = <<>> THEN <<>>
    ELSE IF Len(codes) = 1 THEN codes[1]
    ELSE codes[1] \o sep \o join(Tail(codes), sep)

\* Color
Default == [kind |-> "Default", a |-> 0, b |-> 0, c |-> 0]
Named(code) == [kind |-> "Named", a |-> code, b |-> 0, c |-> 0]
Ansi256(n) == [kind |-> "Ansi256", a |-> n, b |-> 0, c |-> 0]
Rgb(r, g, b) == [kind |-> "Rgb", a |-> r, b |-> g, c |-> b]

\* named_to_fg / named_color_to_fg_code: a NamedColor is kept as the code
\* both functions give it (Gray is BrightBlack's 90).
Red == 31
BrightBlack == 90
Gray == 90
BrightWhite == 97
named_to_fg(c) == c

\* color_to_fg_code
color_to_fg_code(color) ==
    CASE color.kind = "Default" -> <<>>
      [] color.kind = "Named" -> Decimal(named_to_fg(color.a))
      [] color.kind = "Ansi256" ->
           <<"3", "8", ";", "5", ";">> \o Decimal(color.a)
      [] color.kind = "Rgb" ->
           <<"3", "8", ";", "2", ";">> \o Decimal(color.a) \o <<";">>
             \o Decimal(color.b) \o <<";">> \o Decimal(color.c)

\* color_to_bg_code
color_to_bg_code(color) ==
    CASE color.kind = "Default" -> <<>>
      [] color.kind = "Named" -> Decimal(named_to_fg(color.a) + 10)
      [] color.kind = "Ansi256" ->
           <<"4", "8", ";", "5", ";">> \o Decimal(color.a)
      [] color.kind = "Rgb" ->
           <<"4", "8", ";", "2", ";">> \o Decimal(color.a) \o <<";">>
             \o Decimal(color.b) \o <<";">> \o Decimal(color.c)

\* Style::new(), Style::fg
Style_new ==
    [fg |-> None, bg |-> None, bold |-> FALSE, dim |-> FALSE,
     italic |-> FALSE, underline |-> FALSE, inverse |-> FALSE]
Style_fg(style, color) == [style EXCEPT !.fg = Some(color)]

\* The `codes` vector of Style::apply.
style_codes(style) ==
    (IF style.bold THEN <<<<"1">>>> ELSE <<>>)
      \o (IF style.dim THEN <<<<"2">>>> ELSE <<>>)
      \o (IF style.italic THEN <<<<"3">>>> ELSE <<>>)
      \o (IF style.underline THEN <<<<"4">>>> ELSE <<>>)
      \o (IF style.inverse THEN <<<<"7">>>> ELSE <<>>)
      \o (IF style.fg # None THEN <<color_to_fg_code(style.fg[1])>> ELSE <<>>)
      \o (IF style.bg # None THEN <<color_to_bg_code(style.bg[1])>> ELSE <<>>)

\* format!("\x1B[{}m{}\x1B[0m", codes.join(";"), s)
wrapped(codes, s) ==
    <<ESC, "[">> \o join(codes, <<";">>) \o <<"m">> \o s
      \o <<ESC, "[", "0", "m">>

\* Style::apply
Style_apply(style, s) ==
    IF style_codes(style) = <<>> THEN s ELSE wrapped(style_codes(style), s)

\* colorize that forgets the text it was given.
colorize_codes_only(s, color) == Style_apply(Style_fg(Style_new, color), <<>>)

\* colorize
colorize(s, color) == Style_apply(Style_fg(Style_new, color), s)

RECURSIVE skip_sequence(_, _)
\* The inner `while let Some(&c) = chars.peek()` of strip_ansi: the index
\* after the first char from j on that ends the sequence.
skip_sequence(s, j) ==
    IF j > Len(s) THEN j
    ELSE IF is_ascii_alphabetic(s[j]) \/ s[j] = "m" THEN j + 1
    ELSE skip_sequence(s, j + 1)

\* Where strip_ansi goes on after the escape character at index i.
after_escape(s, i) ==
    IF i + 1 <= Len(s) /\ s[i + 1] = "["
    THEN skip_sequence(s, i + 2)
    ELSE i + 1

RECURSIVE strip_from(_, _, _)
\* The outer `while let Some(c) = chars.next()` of strip_ansi, from index i.
strip_from(s, i, acc) ==
    IF i > Len(s) THEN acc
    ELSE IF s[i] = ESC THEN strip_from(s, after_escape(s, i), acc)
    ELSE strip_from(s, i + 1, Append(acc, s[i]))

\* strip_ansi
strip_ansi(s) == strip_from(s, 1, <<>>)

\* =====================================================================
\* The renderer (src/core/renderer.rs)
\* =====================================================================

\* Cell::default()
Cell_default ==
    [char |-> " ", fg |-> Default, bg |-> Default, bold |-> FALSE,
     dim |-> FALSE, italic |-> FALSE, underline |-> FALSE,
     inverse |-> FALSE, strikethrough |-> FALSE]

\* OutputBuffer::new: cells holds row after row.
OutputBuffer_new(width, height) ==
    [width |-> width, height |-> height,
     cells |-> [i \in 1 .. (width * height) |-> Cell_default]]

\* `if x < self.width && y < self.height`
InBuffer(buffer, x, y) == x < buffer.width /\ y < buffer.height

\* (y as usize) * (self.width as usize) + (x as usize), one-based
CellIndex(buffer, x, y) == y * buffer.width + x + 1

\* The column and the row of the cell with one-based index i.
ColumnOf(buffer, i) == (i - 1) % buffer.width
RowOf(buffer, i) == (i - 1) \div buffer.width

\* OutputBuffer::get
OutputBuffer_get(buffer, x, y) == buffer.cells[CellIndex(buffer, x, y)]

\* The cell that write_str leaves where it writes the char c.
Written(cell, c, style) ==
    [char |-> c,
     fg |-> IF style.color # None THEN style.color[1] ELSE cell.fg,
     bg |-> IF style.background # None THEN style.background[1] ELSE cell.bg,
     bold |-> style.bold, dim |-> style.dim, italic |-> style.italic,
     underline |-> style.underline, inverse |-> style.inverse,
     strikethrough |-> style.strikethrough]

RECURSIVE write_from(_, _, _, _, _, _)
\* The `for c in s.chars()` loop of write_str from the k-th char on.
write_from(buffer, curr_x, y, s, k, style) ==
    IF k > Len(s) \/ curr_x >= buffer.width THEN buffer
    ELSE write_from(
             IF InBuffer(buffer, curr_x, y)
             THEN [buffer EXCEPT !.cells[CellIndex(buffer, curr_x, y)] =
                                     Written(@, s[k], style)]
             ELSE buffer,
             curr_x + 1, y, s, k + 1, style)

\* OutputBuffer::write_str
write_str(buffer, x, y, s, style) == write_from(buffer, x, y, s, 1, style)

InRect(cx, cy, x, y, width, height) ==
    /\ cx >= x /\ cx < x + width
    /\ cy >= y /\ cy < y + height

\* OutputBuffer::fill_rect: every cell of the rectangle that lies in the
\* buffer is set to the given cell.
fill_rect(buffer, x, y, width, height, cell) ==
    [buffer EXCEPT !.cells =
        [i \in DOMAIN buffer.cells |->
            IF InRect(ColumnOf(buffer, i), RowOf(buffer, i), x, y, width,
                      height)
            THEN cell ELSE buffer.cells[i]]]

\* BorderStyle, and the chars get_border_chars gives the six places that
\* draw_border uses (a box-drawing char is written as its code point).
BorderStyles ==
    {"None", "Single", "Double", "Round", "Bold", "Dashed", "Dotted",
     "Hidden", "Classic"}

BorderChars(tl, tr, bl, br, h, v) ==
    [top_left |-> tl, top_right |-> tr, bottom_left |-> bl,
     bottom_right |-> br, horizontal |-> h, vertical |-> v]

\* get_border_chars
get_border_chars(style) ==
    CASE style \in {"None", "Hidden"} ->
           BorderChars(" ", " ", " ", " ", " ", " ")
      [] style = "Single" ->
           BorderChars("U+250C", "U+2510", "U+2514", "U+2518", "U+2500",
                       "U+2502")
      [] style = "Double" ->
           BorderChars("U+2554", "U+2557", "U+255A", "U+255D", "U+2550",
                       "U+2551")
      [] style = "Round" ->
           BorderChars("U+256D", "U+256E", "U+2570", "U+256F", "U+2500",
                       "U+2502")
      [] style = "Bold" ->
           BorderChars("U+250F", "U+2513", "U+2517", "U+251B", "U+2501",
                       "U+2503")
      [] style = "Dashed" ->
           BorderChars("U+250C", "U+2510", "U+2514", "U+2518", "U+254C",
                       "U+254E")
      [] style = "Dotted" ->
           BorderChars("U+00B7", "U+00B7", "U+00B7", "U+00B7", "U+00B7",
                       "U+00B7")
      [] style = "Classic" -> BorderChars("+", "+", "+", "+", "-", "|")

\* The char draw_border writes at (cx, cy), or <<>> where it writes none.
BorderCharAt(chars, cx, cy, x, y, width, height) ==
    CASE cy = y /\ cx = x -> <<chars.top_left>>
      [] cy = y /\ cx = x + width - 1 -> <<chars.top_right>>
      [] cy = y + height - 1 /\ cx = x -> <<chars.bottom_left>>
      [] cy = y + height - 1 /\ cx = x + width - 1 -> <<chars.bottom_right>>
      [] cy \in {y, y + height - 1} /\ cx > x /\ cx < x + width - 1 ->
           <<chars.horizontal>>
      [] cx \in {x, x + width - 1} /\ cy > y /\ cy < y + height - 1 ->
           <<chars.vertical>>
      [] OTHER -> <<>>

\* set_styled_char
Styled_char(cell, c, color) == [cell EXCEPT !.char = c, !.fg = color]

Bordered(cell, at, color) ==
    IF at = <<>> THEN cell ELSE Styled_char(cell, at[1], color)

\* OutputBuffer::draw_border
draw_border(buffer, x, y, width, height, style, color) ==
    IF width < 2 \/ height < 2 THEN buffer
    ELSE [buffer EXCEPT !.cells =
            [i \in DOMAIN buffer.cells |->
                Bordered(buffer.cells[i],
                         BorderCharAt(get_border_chars(style),
                                      ColumnOf(buffer, i), RowOf(buffer, i),
                                      x, y, width, height),
                         color)]]

\* named_color_to_fg_code, named_color_to_bg_code
named_color_to_fg_code(c) == c
named_color_to_bg_code(c) == named_color_to_fg_code(c) + 10

Escape(code) == <<ESC, "[">> \o code \o <<"m">>

\* color_to_ansi_fg
color_to_ansi_fg(color) ==
    CASE color.kind = "Default" -> <<>>
      [] color.kind = "Named" ->
           Escape(Decimal(named_color_to_fg_code(color.a)))
      [] color.kind = "Ansi256" ->
           Escape(<<"3", "8", ";", "5", ";">> \o Decimal(color.a))
      [] color.kind = "Rgb" ->
           Escape(<<"3", "8", ";", "2", ";">> \o Decimal(color.a) \o <<";">>
                    \o Decimal(color.b) \o <<";">> \o Decimal(color.c))

\* color_to_ansi_bg
color_to_ansi_bg(color) ==
    CASE color.kind = "Default" -> <<>>
      [] color.kind = "Named" ->
           Escape(Decimal(named_color_to_bg_code(color.a)))
      [] color.kind = "Ansi256" ->
           Escape(<<"4", "8", ";", "5", ";">> \o Decimal(color.a))
      [] color.kind = "Rgb" ->
           Escape(<<"4", "8", ";", "2", ";">> \o Decimal(color.a) \o <<";">>
                    \o Decimal(color.b) \o <<";">> \o Decimal(color.c))

\* The style-change preamble of to_string for one cell.
Preamble(cell) ==
    Escape(<<"0">>)
      \o (IF cell.bold THEN Escape(<<"1">>) ELSE <<>>)
      \o (IF cell.dim THEN Escape(<<"2">>) ELSE <<>>)
      \o (IF cell.italic THEN Escape(<<"3">>) ELSE <<>>)
      \o (IF cell.underline THEN Escape(<<"4">>) ELSE <<>>)
      \o (IF cell.inverse THEN Escape(<<"7">>) ELSE <<>>)
      \o (IF cell.strikethrough THEN Escape(<<"9">>) ELSE <<>>)
      \o color_to_ansi_fg(cell.fg)
      \o color_to_ansi_bg(cell.bg)

\* output, last_fg, last_bg, last_bold, last_dim at the start of to_string
Emitter ==
    [output |-> <<>>, last_fg |-> Default, last_bg |-> Default,
     last_bold |-> FALSE, last_dim |-> FALSE]

\* The body of `for x in 0..self.width` for one cell.
emit_cell(st, cell) ==
    IF cell.fg # st.last_fg \/ cell.bg # st.last_bg
         \/ cell.bold # st.last_bold \/ cell.dim # st.last_dim
    THEN [output |-> st.output \o Preamble(cell) \o <<cell.char>>,
          last_fg |-> cell.fg, last_bg |-> cell.bg,
          last_bold |-> cell.bold, last_dim |-> cell.dim]
    ELSE [st EXCEPT !.output = Append(@, cell.char)]

RECURSIVE emit_row(_, _, _, _)
\* `for x in 0..self.width` from x on, in row y
emit_row(buffer, st, x, y) ==
    IF x >= buffer.width THEN st
    ELSE emit_row(buffer, emit_cell(st, OutputBuffer_get(buffer, x, y)),
                  x + 1, y)

\* A row start that puts a line feed before the first row as well.
row_start_every(st, y) == [st EXCEPT !.output = Append(@, LF)]

\* `if y > 0 { output.push('\n'); }`
row_start(st, y) ==
    IF y > 0 THEN [st EXCEPT !.output = Append(@, LF)] ELSE st

RECURSIVE emit_rows(_, _, _)
\* `for y in 0..self.height` from y on
emit_rows(buffer, st, y) ==
    IF y >= buffer.height THEN st
    ELSE emit_rows(buffer, emit_row(buffer, row_start(st, y), 0, y), y + 1)

\* OutputBuffer::to_string
OutputBuffer_to_string(buffer) ==
    emit_rows(buffer, Emitter, 0).output \o Escape(<<"0">>)


\* ------------------------------------------------------------ VNode
\* BoxStyle::default(): every field is None (src/core/component.rs).
BoxStyle_default ==
    [flex_direction |-> None, justify_content |-> None,
     align_items |-> None, gap |-> None, flex_grow |-> None,
     width |-> None, height |-> None, padding |-> None,
     border_style |-> None, border_color |-> None, background |-> None]

\* TextStyle::default()
TextStyle_default ==
    [color |-> None, background |-> None, bold |-> FALSE,
     italic |-> FALSE, underline |-> FALSE, strikethrough |-> FALSE,
     dim |-> FALSE, inverse |-> FALSE]

\* The variants of VNode, as records of one shape.
VNode_Empty ==
    [type |-> "Empty", id |-> None, style |-> BoxStyle_default,
     text_style |-> TextStyle_default, children |-> <<>>,
     content |-> <<>>, x |-> 0, y |-> 0]
VNode_Box(id, style, children) ==
    [VNode_Empty EXCEPT !.type = "Box", !.id = id, !.style = style,
                        !.children = children]
VNode_Text(content, style) ==
    [VNode_Empty EXCEPT !.type = "Text", !.content = content,
                        !.text_style = style]
VNode_Spacer(x, y) == [VNode_Empty EXCEPT !.type = "Spacer", !.x = x, !.y = y]
VNode_Fragment(children) ==
    [VNode_Empty EXCEPT !.type = "Fragment", !.children = children]

\* The `if let Some(..) = box_node.style...` assignments of
\* vnode_to_layout_node, the padding and the border.
box_layout_style(style) ==
    [LayoutStyle_new EXCEPT
        !.flex_direction = unwrap_or(style.flex_direction, @),
        !.justify_content = unwrap_or(style.justify_content, @),
        !.align_items = unwrap_or(style.align_items, @),
        !.gap = unwrap_or(style.gap, @),
        !.flex_grow = unwrap_or(style.flex_grow, @),
        !.width = unwrap_or(style.width, @),
        !.height = unwrap_or(style.height, @),
        !.padding = IF style.padding # None
                    THEN Edges_all(style.padding[1]) ELSE @,
        !.border_width = IF style.border_style # None THEN 1 ELSE @]

\* node_id * 1000 + i, for the i-th child counted from one
child_id(node_id, i) == node_id * 1000 + (i - 1)

RECURSIVE vnode_to_layout_node(_, _)
\* vnode_to_layout_node
vnode_to_layout_node(node, id) ==
    CASE node.type = "Box" ->
           [id |-> unwrap_or(node.id, id),
            style |-> box_layout_style(node.style),
            children |->
                [i \in DOMAIN node.children |->
                    vnode_to_layout_node(
                        node.children[i],
                        child_id(unwrap_or(node.id, id), i))],
            content_size |-> <<0, 0>>]
      [] node.type = "Text" -> LayoutNode_text(id, Len(node.content), 1)
      [] node.type = "Spacer" -> LayoutNode_text(id, node.x, Max(node.y, 1))
      [] node.type = "Fragment" ->
           [LayoutNode_new(id) EXCEPT
               !.children =
                   [i \in DOMAIN node.children |->
                       vnode_to_layout_node(node.children[i],
                                            child_id(id, i))]]
      [] node.type = "Empty" -> LayoutNode_new(id)

\* `Cell { char: ' ', bg, ..Default::default() }`
Background(bg) == [Cell_default EXCEPT !.bg = bg]

\* The background and the border of a Box whose rectangle is `layout`.
paint_box(buffer, layout, style) ==
    IF style.border_style # None
         /\ style.border_style[1] \notin {"None", "Hidden"}
    THEN draw_border(
             IF style.background # None
             THEN fill_rect(buffer, layout.x, layout.y, layout.width,
                            layout.height, Background(style.background[1]))
             ELSE buffer,
             layout.x, layout.y, layout.width, layout.height,
             style.border_style[1], unwrap_or(style.border_color, Default))
    ELSE IF style.background # None
    THEN fill_rect(buffer, layout.x, layout.y, layout.width, layout.height,
                   Background(style.background[1]))
    ELSE buffer

RECURSIVE render_children(_, _, _, _, _)
RECURSIVE render_vnode_to_buffer(_, _, _, _)
\* `for (i, child) in children.iter().enumerate()` from the i-th child on
render_children(children, i, layouts, node_id, buffer) ==
    IF i > Len(children) THEN buffer
    ELSE render_children(
             children, i + 1, layouts, node_id,
             render_vnode_to_buffer(children[i], layouts,
                                    child_id(node_id, i), buffer))

\* render_vnode_to_buffer
render_vnode_to_buffer(node, layouts, id, buffer) ==
    CASE node.type = "Box" ->
           IF unwrap_or(node.id, id) \in DOMAIN layouts
           THEN render_children(
                    node.children, 1, layouts, unwrap_or(node.id, id),
                    paint_box(buffer, layouts[unwrap_or(node.id, id)],
                              node.style))
           ELSE buffer
      [] node.type = "Text" ->
           IF id \in DOMAIN layouts
           THEN write_str(buffer, layouts[id].x, layouts[id].y,
                          node.content, node.text_style)
           ELSE buffer
      [] node.type = "Fragment" ->
           render_children(node.children, 1, layouts, id, buffer)
      [] OTHER -> buffer

\* render_to_string from `render_vnode_to_buffer(...)` on; its locals are
\* kept as a record beside the String it returns.
render_laid(node, width, height, layout_node, layouts) ==
    [layout_node |-> layout_node,
     layouts |-> layouts,
     string |->
        OutputBuffer_to_string(
            render_vnode_to_buffer(node, layouts, 0,
                                   OutputBuffer_new(width, height)))]

\* render_to_string from `calculate_layout(...)` on
render_projected(node, width, height, layout_node) ==
    render_laid(node, width, height, layout_node,
                calculate_layout(layout_node, width, height))

\* render_to_string
render_to_string(node, width, height) ==
    render_projected(node, width, height, vnode_to_layout_node(node, 0))

\* ------------------------------------------------------------ actions
\* Strings of printable ASCII chars up to MaxLen chars, over chars that
\* also occur inside escape sequences.
MaxLen == 3
PrintableChars == {"a", "m", "[", ";", "0", " "}
RECURSIVE StringsUpTo(_)
StringsUpTo(n) ==
    IF n = 0 THEN {<<>>}
    ELSE StringsUpTo(n - 1)
           \cup {Append(s, c) : s \in StringsUpTo(n - 1), c \in PrintableChars}
Strings == StringsUpTo(MaxLen)

Colors ==
    {Default, Named(Red), Named(Gray), Named(BrightWhite), Ansi256(0),
     Ansi256(255), Rgb(0, 0, 0), Rgb(255, 128, 7)}

\* Buffer sizes up to MaxWidth x MaxHeight.
MaxWidth == 8
MaxHeight == 4

\* The trees given to render_to_string: leaves, a Fragment of one Text,
\* and a Box of up to MaxChildren children each a Text, a Spacer or a
\* bordered Box of one Text.
BoldRed ==
    [TextStyle_default EXCEPT !.color = Some(Named(Red)), !.bold = TRUE]
Texts ==
    {VNode_Text(<<"a">>, TextStyle_default),
     VNode_Text(<<"a", "b", "c">>, BoldRed)}
Leaves == Texts \cup {VNode_Empty, VNode_Spacer(1, 0)}
Border(b) == [BoxStyle_default EXCEPT !.border_style = Some(b)]
BoxStyles ==
    {BoxStyle_default,
     Border("Single"), Border("None"), Border("Hidden"), Border("Classic"),
     [BoxStyle_default EXCEPT !.padding = Some(1)],
     [Border("Single") EXCEPT !.padding = Some(1)],
     [Border("Double") EXCEPT !.flex_direction = Some("Column")],
     [Border("Round") EXCEPT !.flex_direction = Some("RowReverse")],
     [BoxStyle_default EXCEPT !.background = Some(Ansi256(0)),
                              !.width = Some(Fixed(5))]}
BoxIds == {None, Some(5)}
InnerBoxes ==
    {VNode_Box(None, Border("Single"),
               <<VNode_Text(<<"a">>, TextStyle_default)>>)}
Children == Texts \cup {VNode_Spacer(1, 0)} \cup InnerBoxes
RECURSIVE ChildLists(_)
ChildLists(n) ==
    IF n = 0 THEN {<<>>}
    ELSE ChildLists(n - 1)
           \cup {Append(cs, c) : cs \in ChildLists(n - 1), c \in Children}
VNodes ==
    Leaves
      \cup {VNode_Fragment(<<t>>) : t \in Texts}
      \cup {VNode_Box(id, st, cs) :
              id \in BoxIds, st \in BoxStyles, cs \in ChildLists(MaxChildren)}

NoInput ==
    [op |-> "none", s |-> <<>>, color |-> Default, node |-> VNode_Empty,
     width |-> 0, height |-> 0]

TextInit ==
    /\ input = NoInput
    /\ output = <<>>
    /\ plain = None

\* colorize(s, color)
Colorize(s, color) ==
    /\ input = NoInput
    /\ input' = [NoInput EXCEPT !.op = "colorize", !.s = s, !.color = color]
    /\ output' = colorize(s, color)
    /\ plain' = None
    /\ UNCHANGED <<sigVars, layoutVars, focusVars, idVars>>

\* strip_ansi(&output)
StripAnsi ==
    /\ input.op # "none"
    /\ plain = None
    /\ plain' = Some(strip_ansi(output))
    /\ UNCHANGED <<input, output, sigVars, layoutVars, focusVars, idVars>>

\* render_to_string(&node, width, height); tree and result are its
\* layout_node and layouts.
Rendered(node, width, height, r) ==
    /\ input = NoInput
    /\ input' = [NoInput EXCEPT !.op = "render", !.node = node,
                                !.width = width, !.height = height]
    /\ tree' = r.layout_node
    /\ avail' = <<width, height>>
    /\ result' = r.layouts
    /\ output' = r.string
    /\ plain' = None
    /\ UNCHANGED <<sigVars, focusVars, idVars>>

RenderToString(node, width, height) ==
    Rendered(node, width, height, render_to_string(node, width, height))

\* The values of one call are dropped before the next call is followed.
Discard ==
    /\ plain # None
    /\ input' = NoInput
    /\ output' = <<>>
    /\ plain' = None
    /\ tree' = LayoutNode_new(0)
    /\ avail' = <<0, 0>>
    /\ result' = NoLayout
    /\ UNCHANGED <<sigVars, focusVars, idVars>>

TextNext ==
    \/ /\ input = NoInput
       /\ \E s \in Strings, color \in Colors : Colorize(s, color)
    \/ /\ input = NoInput
       /\ \E node \in VNodes, width \in 0 .. MaxWidth,
             height \in 0 .. MaxHeight :
             RenderToString(node, width, height)
    \/ StripAnsi
    \/ Discard

\* =====================================================================
\* The focus manager (src/core/focus.rs)
\* =====================================================================

MaxFocusIds == 3
MaxHistory == 2
MaxCallbacks == 1

\* Focusable::new(id).with_tab_index(tab_index).with_disabled(disabled)
Focusable(id, tab_index, disabled) ==
    [id |-> id, tab_index |-> tab_index, disabled |-> disabled]

\* The manager as one value; notified counts the invocations of change
\* callbacks and ret is what the call returned.
Manager ==
    [elements |-> elements, focused |-> focused, history |-> history,
     callbacks |-> callbacks, notified |-> 0, ret |-> FALSE]

\* sort_by_key(|e| (e.tab_index, e.id))
KeyBefore(a, b) ==
    \/ a.tab_index < b.tab_index
    \/ a.tab_index = b.tab_index /\ a.id < b.id

RECURSIVE sorted(_)
\* The ids of a set of elements in ascending order of the key.
sorted(items) ==
    IF items = {} THEN <<>>
    ELSE <<(CHOOSE e \in items : \A o \in items \ {e} : KeyBefore(e, o)).id>>
           \o sorted(items \ {CHOOSE e \in items :
                                 \A o \in items \ {e} : KeyBefore(e, o)})

\* A list of focusable ids that ignores tab_index.
sorted_focusable_ids_by_id(m) ==
    sorted({Focusable(m.elements[i].id, 0, FALSE) :
              i \in {j \in DOMAIN m.elements : ~m.elements[j].disabled}})

\* FocusManager::sorted_focusable_ids
sorted_focusable_ids(m) ==
    sorted({m.elements[i] :
              i \in {j \in DOMAIN m.elements : ~m.elements[j].disabled}})

\* FocusManager::notify_change: every callback is invoked once.
notify_change(m) == [m EXCEPT !.notified = @ + m.callbacks]

\* focus that takes disabled elements as well.
focus_any(m, id) ==
    IF id \in DOMAIN m.elements
    THEN notify_change(
             [m EXCEPT !.history = IF m.focused # None
                                   THEN Append(@, m.focused[1]) ELSE @,
                       !.focused = Some(id),
                       !.ret = TRUE])
    ELSE [m EXCEPT !.ret = FALSE]

\* FocusManager::focus
focus(m, id) ==
    IF id \in DOMAIN m.elements /\ ~m.elements[id].disabled
    THEN notify_change(
             [m EXCEPT !.history = IF m.focused # None
                                   THEN Append(@, m.focused[1]) ELSE @,
                       !.focused = Some(id),
                       !.ret = TRUE])
    ELSE [m EXCEPT !.ret = FALSE]

\* ids.iter().position(|&i| i == id), None when there is no such index
position(ids, opt) ==
    IF opt # None /\ \E k \in DOMAIN ids : ids[k] = opt[1]
    THEN Some(CHOOSE k \in DOMAIN ids : ids[k] = opt[1])
    ELSE None

\* `(idx + 1) % ids.len()` or 0, as a one-based index
next_idx(ids, current_idx) ==
    IF current_idx # None THEN (current_idx[1] % Len(ids)) + 1 ELSE 1

\* `idx - 1` or `ids.len() - 1`, as a one-based index
prev_idx(ids, current_idx) ==
    IF current_idx # None /\ current_idx[1] > 1 THEN current_idx[1] - 1
    ELSE Len(ids)

\* FocusManager::focus_next, from the sorted ids
focus_next_in(m, ids) ==
    IF ids = <<>> THEN [m EXCEPT !.ret = FALSE]
    ELSE focus(m, ids[next_idx(ids, position(ids, m.focused))])

focus_next(m) == focus_next_in(m, sorted_focusable_ids(m))

\* FocusManager::focus_previous, from the sorted ids
focus_previous_in(m, ids) ==
    IF ids = <<>> THEN [m EXCEPT !.ret = FALSE]
    ELSE focus(m, ids[prev_idx(ids, position(ids, m.focused))])

focus_previous(m) == focus_previous_in(m, sorted_focusable_ids(m))

\* FocusManager::focus_first, focus_last, from the sorted ids
focus_first_in(m, ids) ==
    IF ids = <<>> THEN [m EXCEPT !.ret = FALSE] ELSE focus(m, ids[1])
focus_last_in(m, ids) ==
    IF ids = <<>> THEN [m EXCEPT !.ret = FALSE] ELSE focus(m, ids[Len(ids)])

focus_first(m) == focus_first_in(m, sorted_focusable_ids(m))
focus_last(m) == focus_last_in(m, sorted_focusable_ids(m))

\* FocusManager::blur
blur(m) == notify_change([m EXCEPT !.focused = None])

\* FocusManager::register, unregister
register(m, element) ==
    [m EXCEPT !.elements = (element.id :> element) @@ @]
unregister(m, id) ==
    [m EXCEPT !.elements = [i \in DOMAIN @ \ {id} |-> @[i]],
              !.focused = IF @ = Some(id) THEN None ELSE @]

\* ------------------------------------------------------------ actions
FocusIds == 1 .. MaxFocusIds
TabIndexes == {0, 1}

\* The call before the last one where the last two calls are focus_next and
\* then focus_previous: the focus that focus_next started from.
NoCall == [op |-> "none", focused |-> None]

\* The last call: its name and argument, the focus it started from, what
\* it returned, how many callback invocations it made and whether it left
\* elements, focused, history and callbacks all as they were.
NoFocusOp ==
    [op |-> "new", id |-> 0, ret |-> FALSE, focused |-> None,
     notified |-> 0, unchanged |-> TRUE, before |-> NoCall]

FocusInit ==
    /\ elements = <<>>
    /\ focused = None
    /\ history = <<>>
    /\ callbacks = 0
    /\ flast = NoFocusOp

\* One call on the manager that leaves it as m.
Called(op, id, m) ==
    /\ Len(m.history) <= MaxHistory
    /\ elements' = m.elements
    /\ focused' = m.focused
    /\ history' = m.history
    /\ callbacks' = m.callbacks
    /\ flast' = [op |-> op, id |-> id, ret |-> m.ret, focused |-> focused,
                 notified |-> m.notified,
                 unchanged |-> /\ m.elements = elements
                               /\ m.focused = focused
                               /\ m.history = history
                               /\ m.callbacks = callbacks,
                 before |-> IF op = "focus_previous" /\ flast.op = "focus_next"
                            THEN [op |-> flast.op, focused |-> flast.focused]
                            ELSE NoCall]
    /\ UNCHANGED <<sigVars, layoutVars, textVars, idVars>>

Register(id, tab_index, disabled) ==
    Called("register", id,
           register(Manager, Focusable(id, tab_index, disabled)))
Unregister(id) ==
    /\ id \in DOMAIN elements
    /\ Called("unregister", id, unregister(Manager, id))
OnChange ==
    /\ callbacks < MaxCallbacks
    /\ Called("on_change", 0, [Manager EXCEPT !.callbacks = @ + 1])
Focus(id) == Called("focus", id, focus(Manager, id))
Blur == Called("blur", 0, blur(Manager))
FocusNext == Called("focus_next", 0, focus_next(Manager))
FocusPrevious == Called("focus_previous", 0, focus_previous(Manager))
FocusFirst == Called("focus_first", 0, focus_first(Manager))
FocusLast == Called("focus_last", 0, focus_last(Manager))

FocusNextStep ==
    \/ \E id \in FocusIds, t \in TabIndexes, d \in BOOLEAN : Register(id, t, d)
    \/ \E id \in FocusIds : Unregister(id)
    \/ OnChange
    \/ \E id \in FocusIds \cup {MaxFocusIds + 1} : Focus(id)
    \/ Blur
    \/ FocusNext
    \/ FocusPrevious
    \/ FocusFirst
    \/ FocusLast

\* ------------------------------------------------------- specifications
Init == SigInit /\ LayoutInit /\ TextInit /\ FocusInit /\ IdInit

SpecEffects == Init /\ [][EffNext]_vars

SpecMemo == Init /\ [][MemoNext]_vars

SpecLayout == Init /\ [][LayoutNext]_vars

SpecNesting == Init /\ [][NestNext]_vars

SpecGrow == Init /\ [][GrowNext]_vars

SpecText == Init /\ [][TextNext]_vars

SpecFocus == Init /\ [][FocusNextStep]_vars

SpecItems == Init /\ [][ItemNext]_vars

SpecWide == Init /\ [][WideNext]_vars

SpecIds == Init /\ [][IdNext]_vars

\* ------------------------------------------------------------- claims
IsWrite(op) == op \in {"set", "update"}
IsRead(op) == op \in {"get", "get_untracked"}
IsMemoRead(op) == op \in {"memo_get", "memo_get_untracked"}

\* C1: once create_effect(cb) has run a cb that reads signal s with get(),
\* every later write to s outside a batch (set or update, whether or not the
\* value changes) runs cb exactly once more before the write returns.
C1_WriteRerunsEffect ==
    [][\A e \in DOMAIN EFFECTS, s \in DOMAIN signals :
         (/\ IsWrite(last'.op) /\ last'.a = s
          /\ ~BATCHING
          /\ ReadsTracked(EFFECTS[e].callback, s)
          /\ signals[s].id \in EFFECTS[e].dependencies)
         => EFFECTS'[e].calls = EFFECTS[e].calls + 1]_vars

\* C2: an effect whose callback reads signals a and b runs exactly once for
\* a batch that writes a and b: not while the closure of the batch runs, once
\* when the outermost batch returns, and that run sees the final values.
C2_BatchRunsEffectOnce ==
    [][\A e \in DOMAIN EFFECTS :
         (/\ ReadsTracked(EFFECTS[e].callback, 1)
          /\ ReadsTracked(EFFECTS[e].callback, 2)
          /\ {signals[1].id, signals[2].id} \subseteq EFFECTS[e].dependencies)
         => /\ (BATCHING /\ batchStack' # <<>>)
                  => EFFECTS'[e].calls = EFFECTS[e].calls
            /\ (last'.op = "batch_exit" /\ batchStack' = <<>>
                  /\ batchLog = {1, 2})
                  => /\ EFFECTS'[e].calls = EFFECTS[e].calls + 1
                     /\ Len(SelectSeq(ran', LAMBDA r : r.e = e)) = 1
                     /\ \A k \in DOMAIN ran' : \A s \in {1, 2} :
                          ran'[k].e = e =>
                              ran'[k].seen[s] = signals'[s].value]_vars

\* C3: a get() or get_untracked() returns the value stored by the most
\* recent set/update of that signal, or the initial value if there was none.
C3_ReadReturnsLastWrite ==
    IsRead(last.op) => last.ret = written[last.a]

\* a read that returns a value which only a write can have stored
C3_Witness ==
    IsRead(last.op) /\ last.ret = MaxVal

\* C4: when create_effect returns, the callback has run exactly once.
C4_EffectRunsOnceAtCreation ==
    last.op = "create_effect" => EFFECTS[last.a].calls = 1

\* create_effect has just returned an effect that collected dependencies
C4_Witness ==
    /\ last.op = "create_effect"
    /\ EFFECTS[last.a].dependencies # {}

\* C5: an effect that reads b only inside untrack(|| b.get()) is never
\* re-run because of a write to b, neither by a write outside a batch nor at
\* the end of a batch that wrote only b, while a write to a signal a that it
\* read with get() still re-runs it.
C5_UntrackedReadDoesNotSubscribe ==
    [][\A e \in DOMAIN EFFECTS : \A a, b \in DOMAIN signals :
         (/\ ReadsOnlyUntracked(EFFECTS[e].callback, b)
          /\ ReadsTracked(EFFECTS[e].callback, a)
          /\ signals[a].id \in EFFECTS[e].dependencies)
         => /\ (IsWrite(last'.op) /\ last'.a = b)
                  => EFFECTS'[e].calls = EFFECTS[e].calls
            /\ (last'.op = "batch_exit" /\ batchLog = {b})
                  => EFFECTS'[e].calls = EFFECTS[e].calls
            /\ (IsWrite(last'.op) /\ last'.a = a /\ ~BATCHING)
                  => EFFECTS'[e].calls = EFFECTS[e].calls + 1]_vars

\* C6: a memo read returns what the compute function yields for the
\* current value of the signal it reads, also after that signal was written.
C6_MemoIsCurrent ==
    (IsMemoRead(last.op) /\ ~panicked) =>
        last.ret = 2 * signals[memos[last.a].src].value

Laid == avail # <<0, 0>>

Vis == visible_children(tree)

\* The root's inner rectangle, from the rectangle the result gives it.
InnerX == result[tree.id].x + tree.style.padding.left + tree.style.border_width
InnerY == result[tree.id].y + tree.style.padding.top + tree.style.border_width
InnerW == saturating_sub(result[tree.id].width, padding_h(tree.style))
InnerH == saturating_sub(result[tree.id].height, padding_v(tree.style))
InnerMain == MainOf(tree, <<InnerW, InnerH>>)

\* A child's main-axis size and offset in the result.
OutMain(c) == MainOf(tree, <<result[c.id].width, result[c.id].height>>)
OutOffset(c) ==
    MainOf(tree, <<result[c.id].x - InnerX, result[c.id].y - InnerY>>)

BaseMain(c) ==
    MainOf(tree, calculate_child_base_size(
                     c, InnerW, InnerH, is_row(tree.style.flex_direction)))

Gaps == tree.style.gap * (Len(Vis) - 1)

Remaining ==
    saturating_sub(InnerMain,
                   SumSeq([i \in DOMAIN Vis |-> BaseMain(Vis[i])]) + Gaps)

\* n * w / total to the nearest integer, halves upwards, in exact arithmetic.
RoundedShare(n, w, total) == (2 * w * n + total) \div (2 * total)

IsLeaf(c) == c.children = <<>>

\* The container, not the child's own style, decides where the child goes.
PlacedByContainer(c) ==
    c.style.position_x = None /\ c.style.position_y = None

\* C8: in a container whose visible children have a total flex_grow above
\* zero, the main-axis size every visible child has in the result is its
\* base main-axis size plus round(remaining * flex_grow / total flex_grow),
\* in rows and columns, for leaves and containers.
C8_GrowShareIsAdded ==
    (Laid /\ total_flex_grow(tree) > 0) =>
        \A i \in DOMAIN Vis :
            OutMain(Vis[i]) =
                BaseMain(Vis[i])
                  + RoundedShare(Remaining, Vis[i].style.flex_grow,
                                 total_flex_grow(tree))

\* C9: in a Column container with justify_content FlexStart whose visible
\* children are leaves without flex_grow, the first visible child's y is
\* the container's inner y and every following one's y is the previous
\* child's y plus the previous child's height in the result plus the gap.
\* (Stated for children the container places, which is a part of the claim.)
C9_ColumnStacksChildren ==
    ( /\ Laid
      /\ tree.style.flex_direction = "Column"
      /\ tree.style.justify_content = "FlexStart"
      /\ \A i \in DOMAIN Vis :
            /\ IsLeaf(Vis[i])
            /\ Vis[i].style.flex_grow = 0
            /\ PlacedByContainer(Vis[i]) )
    => \A i \in DOMAIN Vis :
          result[Vis[i].id].y =
              IF i = 1 THEN InnerY
              ELSE result[Vis[i - 1].id].y + result[Vis[i - 1].id].height
                     + tree.style.gap

\* C10: with justify_content Center the first placed child's main-axis
\* offset from the container's inner origin is
\* floor((main_size - total child main sizes - total gaps) / 2), and 0 when
\* the children do not fit.
\* (Stated for a first child the container places, which is a part of the
\* claim.)
C10_CenterOffset ==
    ( /\ Laid
      /\ tree.style.justify_content = "Center"
      /\ Vis # <<>>
      /\ PlacedByContainer(Vis[order(tree)[1]]) )
    => OutOffset(Vis[order(tree)[1]]) =
          saturating_sub(InnerMain,
                         SumSeq([i \in DOMAIN Vis |-> OutMain(Vis[i])])
                           + Gaps) \div 2


RECURSIVE WithoutHidden(_)
\* The tree without its nodes that have display = false.
WithoutHidden(node) ==
    [node EXCEPT !.children =
        [i \in DOMAIN SelectSeq(node.children, LAMBDA c : c.style.display) |->
            WithoutHidden(
                SelectSeq(node.children, LAMBDA c : c.style.display)[i])]]

RECURSIVE IdsOf(_)
\* The ids of a node and of its descendants.
IdsOf(node) ==
    {node.id} \cup UNION {IdsOf(node.children[i]) : i \in DOMAIN node.children}

RECURSIVE HiddenIds(_)
\* The ids of the nodes with display = false and of their descendants.
HiddenIds(node) ==
    IF ~node.style.display THEN IdsOf(node)
    ELSE UNION {HiddenIds(node.children[i]) : i \in DOMAIN node.children}

\* C12: the result has no entry for a node with display = false nor for
\* any of its descendants, and the rectangles of all other nodes are the
\* ones calculate_layout gives for the tree with the hidden nodes removed.
C12_HiddenNodesAreSkipped ==
    Laid =>
        /\ HiddenIds(tree) \cap DOMAIN result = {}
        /\ result = calculate_layout(WithoutHidden(tree), avail[1], avail[2])

\* C20: for every container and every assignment of positive flex_grow
\* weights to its visible children, the rounded extra amounts
\* round(remaining * w_i / total) add up to at most remaining + 1, so that
\* the grown children plus the gaps overshoot the container's main size by
\* at most 1 (seen in the result for rows, where a text child's stored
\* width is the width it was allotted).
C20_GrowOvershootAtMostOne ==
    ( /\ Laid
      /\ Vis # <<>>
      /\ \A i \in DOMAIN Vis : Vis[i].style.flex_grow > 0 )
    => /\ SumSeq([i \in DOMAIN Vis |->
                    grow_amount(Vis[i].style.flex_grow, Remaining,
                                total_flex_grow(tree))])
            <= Remaining + 1
       /\ ( /\ is_row(tree.style.flex_direction)
            /\ SumSeq([i \in DOMAIN Vis |-> BaseMain(Vis[i])]) + Gaps
                   <= InnerMain )
          => SumSeq([i \in DOMAIN Vis |-> OutMain(Vis[i])]) + Gaps
                 <= InnerMain + 1

\* ------------------------------------------------------------ text claims
Stripped == plain # None

RECURSIVE BlankRows(_, _)
\* h rows of w spaces with a line feed between consecutive rows.
BlankRows(w, h) ==
    IF h = 0 THEN <<>>
    ELSE IF h = 1 THEN [i \in 1 .. w |-> " "]
    ELSE BlankRows(w, h - 1) \o <<LF>> \o [i \in 1 .. w |-> " "]

\* C13: for every width W >= 0 and height H >= 1, the string that
\* render_to_string gives for VNode::Empty is, once its ANSI escape
\* sequences are stripped, exactly H rows of W spaces separated by H - 1
\* line feeds.
C13_EmptyRendersBlank ==
    ( /\ input.op = "render"
      /\ input.node = VNode_Empty
      /\ input.height >= 1
      /\ Stripped )
    => plain[1] = BlankRows(input.width, input.height)

C13_Witness ==
    /\ input.op = "render"
    /\ input.node = VNode_Empty
    /\ input.width = 0
    /\ input.height = 2
    /\ Stripped
    /\ plain[1] = <<LF>>
    /\ output # plain[1]

\* C14: stripping the escape sequences from colorize(s, c) gives s back,
\* for every string s of printable ASCII chars and every Color c (Default,
\* Named, Ansi256, Rgb).
C14_StripUndoesColorize ==
    (input.op = "colorize" /\ Stripped) => plain[1] = input.s

C14_Witness ==
    /\ input.op = "colorize"
    /\ input.s = <<"[", "0", "m">>
    /\ input.color.kind = "Rgb"
    /\ Stripped
    /\ Len(output) > Len(input.s)


\* The tree that render_to_string laid out is a container with a visible
\* child, justified FlexStart and aligned FlexStart or Stretch.
RenderedStartAligned ==
    /\ input.op = "render"
    /\ visible_children(tree) # <<>>
    /\ tree.style.justify_content = "FlexStart"
    /\ tree.style.align_items \in {"FlexStart", "Stretch"}

\* The first visible child's origin in the result is the origin the result
\* gives the container, moved in by the container's left/top padding and
\* its border width.
FirstChildInset ==
    /\ tree.id \in DOMAIN result
    /\ visible_children(tree)[1].id \in DOMAIN result
    /\ result[visible_children(tree)[1].id].x =
           result[tree.id].x + tree.style.padding.left
             + tree.style.border_width
    /\ result[visible_children(tree)[1].id].y =
           result[tree.id].y + tree.style.padding.top
             + tree.style.border_width

Enabled == {elements[i] : i \in {j \in DOMAIN elements : ~elements[j].disabled}}
IsEnabled(opt) ==
    opt # None /\ opt[1] \in DOMAIN elements /\ ~elements[opt[1]].disabled

Lowest(S) == CHOOSE e \in S : \A o \in S \ {e} : KeyBefore(e, o)
Highest(S) == CHOOSE e \in S : \A o \in S \ {e} : KeyBefore(o, e)
SuccessorOf(e) ==
    IF {o \in Enabled : KeyBefore(e, o)} = {} THEN Lowest(Enabled)
    ELSE Lowest({o \in Enabled : KeyBefore(e, o)})
PredecessorOf(e) ==
    IF {o \in Enabled : KeyBefore(o, e)} = {} THEN Highest(Enabled)
    ELSE Highest({o \in Enabled : KeyBefore(o, e)})

\* C15: focus(id) on an id that is unregistered or registered as disabled
\* returns false and leaves the manager unchanged (same focused element,
\* same history, no change callback invoked); on a registered enabled id
\* it returns true and that id becomes the focused element.
C15_FocusRefusesDisabled ==
    flast.op = "focus" =>
        IF IsEnabled(Some(flast.id))
        THEN flast.ret /\ focused = Some(flast.id)
        ELSE ~flast.ret /\ flast.unchanged /\ flast.notified = 0
               /\ focused = flast.focused

\* focus on a disabled element, while another one is focused and a change
\* callback is registered.
C15_Witness ==
    /\ flast.op = "focus"
    /\ flast.id \in DOMAIN elements
    /\ elements[flast.id].disabled
    /\ focused # None
    /\ focused # Some(flast.id)
    /\ history # <<>>
    /\ callbacks > 0
    /\ ~flast.ret

\* focus_next, focus_previous and focus_first move the focus to the
\* successor, the predecessor and the lowest element.
MovesInOrder ==
    /\ (flast.op = "focus_next" /\ IsEnabled(flast.focused))
       => focused = Some(SuccessorOf(elements[flast.focused[1]]).id)
    /\ (flast.op = "focus_previous" /\ IsEnabled(flast.focused))
       => focused = Some(PredecessorOf(elements[flast.focused[1]]).id)
    /\ (flast.op = "focus_first" /\ Enabled # {})
       => focused = Some(Lowest(Enabled).id)

\* focus_next and then focus_previous have been called.
RoundTrip == flast.op = "focus_previous" /\ flast.before.op = "focus_next"

\* C16 as stated: focus_next moves to the successor of the focused element
\* in the non-disabled elements sorted by (tab_index, id), wrapping;
\* focus_previous to the predecessor, wrapping; focus_first to the lowest;
\* and focus_next followed by focus_previous returns to the original
\* element, whatever was focused at the start.
C16_Original ==
    /\ MovesInOrder
    /\ RoundTrip => focused = flast.before.focused

\* C16, amended: the same, with the round trip stated for a start where the
\* focused element is registered and not disabled.
C16_FocusMovesInOrder ==
    /\ MovesInOrder
    /\ (RoundTrip /\ IsEnabled(flast.before.focused))
       => focused = flast.before.focused

\* A round trip over three enabled elements whose order by tab_index is
\* not their order by id.
C16_Witness ==
    /\ RoundTrip
    /\ IsEnabled(flast.before.focused)
    /\ Cardinality(Enabled) = 3
    /\ Lowest(Enabled).id # 1
    /\ focused = flast.before.focused


\* ------------------------------------------------ batch and nesting claims
RECURSIVE Distinct(_)
\* A queue without the later occurrences of its entries.
Distinct(q) ==
    IF q = <<>> THEN <<>>
    ELSE LET d == Distinct(SubSeq(q, 1, Len(q) - 1)) IN
         IF \E i \in DOMAIN d : d[i] = q[Len(q)] THEN d
         ELSE Append(d, q[Len(q)])

\* The effects whose dependency set holds signal s: the callbacks that a
\* write to s has to reach.
DependentsOf(s) ==
    {e \in DOMAIN EFFECTS : signals[s].id \in EFFECTS[e].dependencies}

IsLastRun(k) == \A j \in DOMAIN ran : j > k => ran[j].e # ran[k].e

\* C18: after every run of an effect's callback the effect's dependency
\* set is exactly the set of ids of the signals read with a tracked get()
\* during that run (reads inside untrack and get_untracked excluded),
\* reads made after an untrack(...) call returned and reads made after a
\* nested create_effect call returned included.
C18_DependenciesAreTrackedReads ==
    \A k \in DOMAIN ran :
        IsLastRun(k) => EFFECTS[ran[k].e].dependencies = ran[k].tracked

\* C19: no signal operation panics: a get, get_untracked, set or update,
\* and an update whose closure calls get, get_untracked, set or update on a
\* signal (the updated one or another), all complete normally.
C19_SignalOperationsComplete ==
    (IsRead(last.op) \/ IsWrite(last.op) \/ last.op = "update_with")
    => ~panicked

\* ------------------------------------------- layout claims, continued
InnerCross == CrossOf(tree, <<InnerW, InnerH>>)

\* n * p / 100 to the nearest integer, halves upwards, in exact arithmetic.
RoundedPercent(n, p) == (2 * n * p + 100) \div 200

\* The child's size is its width/height alone: no flex_basis, nothing grows.
SizedByStyle(c) ==
    c.style.flex_basis = Auto /\ total_flex_grow(tree) = 0

\* C21: a visible child with width Percent(p) in a Row container of inner
\* width W has width round(W * p / 100) in the result, and a visible child
\* with height Percent(p) in a Column container of inner height H has height
\* round(H * p / 100), when no min/max constraint applies.
\* (Stated for children without flex_basis in a container where nothing
\* grows, which is a part of the claim.)
C21_PercentOfParent ==
    Laid =>
        \A i \in DOMAIN Vis :
            /\ ( /\ tree.style.flex_direction = "Row"
                 /\ Vis[i].style.width.kind = "Percent"
                 /\ SizedByStyle(Vis[i]) )
               => result[Vis[i].id].width
                      = RoundedPercent(InnerW, Vis[i].style.width.v)
            /\ ( /\ tree.style.flex_direction = "Column"
                 /\ Vis[i].style.height.kind = "Percent"
                 /\ SizedByStyle(Vis[i]) )
               => result[Vis[i].id].height
                      = RoundedPercent(InnerH, Vis[i].style.height.v)

\* A child's cross-axis size and offset in the result.
OutCross(c) == CrossOf(tree, <<result[c.id].width, result[c.id].height>>)
OutCrossOffset(c) ==
    CrossOf(tree, <<result[c.id].x - InnerX, result[c.id].y - InnerY>>)

\* The child's cross-axis size is Auto.
CrossAuto(c) == CrossOf(tree, <<c.style.width, c.style.height>>) = Auto

\* C22: every visible child whose effective alignment (align_self, or the
\* parent's align_items when align_self is Auto) is Stretch and whose
\* cross-axis size is Auto has cross-axis offset 0 and the container's inner
\* cross size as its cross-axis size in the result, in Row containers
\* (height) and in Column containers (width), leaf or container.
\* (Stated for children the container places, which is a part of the claim.)
C22_StretchFillsCross ==
    Laid =>
        \A i \in DOMAIN Vis :
            ( /\ effective_align(tree, Vis[i]) = "Stretch"
              /\ CrossAuto(Vis[i])
              /\ PlacedByContainer(Vis[i]) )
            => /\ OutCrossOffset(Vis[i]) = 0
               /\ OutCross(Vis[i]) = InnerCross

\* The visible children in the order the container places them.
Placed(k) == Vis[order(tree)[k]]

\* The children's base sizes and the gaps fit in the container.
ChildrenFit ==
    SumSeq([i \in DOMAIN Vis |-> BaseMain(Vis[i])]) + Gaps <= InnerMain

\* C23: with justify_content SpaceBetween and two or more visible children
\* whose sizes plus gaps fit in the container, the first placed child starts
\* at the container's inner main-axis start, the last placed child ends at
\* the container's inner main-axis end, and the extra space lies between
\* consecutive children.
C23_SpaceBetweenReachesEnds ==
    ( /\ Laid
      /\ tree.style.justify_content = "SpaceBetween"
      /\ Len(Vis) >= 2
      /\ ChildrenFit )
    => /\ OutOffset(Placed(1)) = 0
       /\ OutOffset(Placed(Len(Vis))) + OutMain(Placed(Len(Vis))) = InnerMain
       /\ \A k \in 1 .. Len(Vis) - 1 :
            OutOffset(Placed(k + 1))
                >= OutOffset(Placed(k)) + OutMain(Placed(k)) + tree.style.gap

\* The direction that runs along the same axis, not reversed.
Forward(d) ==
    CASE d = "RowReverse" -> "Row"
      [] d = "ColumnReverse" -> "Column"
      [] OTHER -> d

\* What calculate_layout gives for the same tree and the same available
\* size when the container's direction is not reversed.
ForwardResult ==
    calculate_layout([tree EXCEPT !.style.flex_direction = Forward(@)],
                     avail[1], avail[2])

ForwardOffset(c) ==
    MainOf(tree, <<ForwardResult[c.id].x - InnerX,
                   ForwardResult[c.id].y - InnerY>>)

SameSize(a, b) == a.width = b.width /\ a.height = b.height

\* The visible children lie along the main axis in reverse list order, from
\* the offset at which the non-reversed direction starts, with the sizes
\* they have in the non-reversed direction.
ReversedPlacement ==
    /\ OutOffset(Vis[Len(Vis)]) = ForwardOffset(Vis[1])
    /\ \A i, j \in DOMAIN Vis :
         i < j => OutOffset(Vis[i]) >= OutOffset(Vis[j])
    /\ DOMAIN result = DOMAIN ForwardResult
    /\ \A id \in DOMAIN result : SameSize(result[id], ForwardResult[id])

\* C24 as stated, for every visible child: it fails for a child with a
\* position_x or position_y override, which is not placed by the container.
C24_Original ==
    ( /\ Laid
      /\ is_reversed(tree.style.flex_direction)
      /\ Vis # <<>> )
    => ReversedPlacement

\* C24: in a RowReverse or ColumnReverse container whose visible children
\* have no position override, the visible children are placed along the
\* main axis in reverse list order starting from the start offset of the
\* non-reversed direction: the last-listed visible child gets the smallest
\* main-axis position and the first-listed the largest, and every node keeps
\* the size it has in the non-reversed direction.
C24_ReversedPlacement ==
    ( /\ Laid
      /\ is_reversed(tree.style.flex_direction)
      /\ Vis # <<>>
      /\ \A i \in DOMAIN Vis : PlacedByContainer(Vis[i]) )
    => ReversedPlacement

\* a reversed container laid out with two visible children, the second
\* listed before the first along the main axis
C24_Witness ==
    /\ Laid
    /\ is_reversed(tree.style.flex_direction)
    /\ Len(Vis) >= 2
    /\ \A i \in DOMAIN Vis : PlacedByContainer(Vis[i])
    /\ OutOffset(Vis[1]) > OutOffset(Vis[2])
    /\ OutMain(Vis[1]) # OutMain(Vis[2])

\* C25: calculate_layout is total: for every tree and every available width
\* and height in 0..65535 no intermediate 16-bit quantity (padding plus
\* twice the border, the sum of the children's base sizes, gap * (count - 1),
\* base plus grow amount, inner origin plus main or cross offset) exceeds
\* 65535, so the call neither panics nor wraps.
C25_LayoutIsTotal ==
    Laid => /\ ~panicked
            /\ ~node_overflows(tree, 0, 0, avail[1], avail[2])

\* ------------------------------------------------- text claims, continued
RenderedTree == input.op = "render"

RECURSIVE NodeCount(_)
\* The number of nodes of a tree.
NodeCount(node) ==
    1 + SumSeq([i \in DOMAIN node.children |-> NodeCount(node.children[i])])

RECURSIVE NoExplicitIds(_)
\* No Box of the VNode tree declares an id.
NoExplicitIds(node) ==
    /\ node.id = None
    /\ \A i \in DOMAIN node.children : NoExplicitIds(node.children[i])

\* C26: render_to_string on a tree with no explicit Box ids assigns every
\* node, the root (id 0) included, a layout ID that no other node has, so
\* the ID-to-rectangle map has one entry per node.
C26_SyntheticIdsAreDistinct ==
    (RenderedTree /\ NoExplicitIds(input.node)) =>
        /\ Cardinality(IdsOf(tree)) = NodeCount(tree)
        /\ Cardinality(DOMAIN result) = NodeCount(tree)

RECURSIVE TextsOf(_, _)
\* The Text nodes of a VNode tree, each with the id render_vnode_to_buffer
\* looks its rectangle up with.
TextsOf(node, id) ==
    CASE node.type = "Text" -> {[node |-> node, id |-> id]}
      [] node.type = "Box" ->
           UNION {TextsOf(node.children[i],
                          child_id(unwrap_or(node.id, id), i)) :
                    i \in DOMAIN node.children}
      [] node.type = "Fragment" ->
           UNION {TextsOf(node.children[i], child_id(id, i)) :
                    i \in DOMAIN node.children}
      [] OTHER -> {}

\* The cells in which buffer b differs from buffer a.
Changed(a, b) == {i \in DOMAIN a.cells : a.cells[i] # b.cells[i]}

\* The buffer after the Text t is painted on an empty buffer, as the Text
\* arm of render_vnode_to_buffer does with the rectangle of t's id.
Painted(t) ==
    write_str(OutputBuffer_new(input.width, input.height),
              result[t.id].x, result[t.id].y, t.node.content,
              t.node.text_style)

\* C27: painting a Text node changes only buffer cells inside that node's
\* layout rectangle: no cell with x >= rect.x + rect.width is modified, even
\* when the content is longer than the rectangle is wide.
C27_TextStaysInRectangle ==
    RenderedTree =>
        \A t \in TextsOf(input.node, 0) :
            t.id \in DOMAIN result =>
                \A i \in Changed(OutputBuffer_new(input.width, input.height),
                                 Painted(t)) :
                    InRect(ColumnOf(Painted(t), i), RowOf(Painted(t), i),
                           result[t.id].x, result[t.id].y,
                           result[t.id].width, result[t.id].height)

\* ------------------------------------------------------------- id claims
\* The ids of the signals, effects and memos that exist, on this thread and
\* on the others, one entry per object.
LiveIds ==
    [i \in DOMAIN signals |-> signals[i].id]
      \o [i \in DOMAIN EFFECTS |-> EFFECTS[i].id]
      \o [i \in DOMAIN memos |-> memos[i].id]
      \o remote

\* C28: all signals, effects and memos that exist at the same time have
\* pairwise distinct ids, for every sequence of create_signal,
\* create_effect, create_memo, create_id and reset_id_counter calls, calls
\* issued from several threads included.
C28_IdsAreDistinct ==
    \A i, j \in DOMAIN LiveIds : i # j => LiveIds[i] # LiveIds[j]

\* C29: whenever no batch call is on the call stack, the batch flag is
\* false and the queue of pending effects is empty: after the outermost
\* batch has returned normally nothing remains queued, and a later write
\* finds the flag false, so that its notify takes the synchronous branch
\* and leaves nothing in the queue.
C29_NoBatchNoFlagNoQueue ==
    (~panicked /\ batchStack = <<>>)
    => /\ ~BATCHING
       /\ PENDING_EFFECTS = <<>>

\* The outermost batch has just returned with effects alive.
C29_Witness ==
    /\ last.op = "batch_exit"
    /\ batchStack = <<>>
    /\ EFFECTS # <<>>

\* The inner rectangle of a node: its rectangle in the result minus padding
\* and border.
InnerLeft(p) == result[p.id].x + p.style.padding.left + p.style.border_width
InnerTop(p) == result[p.id].y + p.style.padding.top + p.style.border_width
InnerRight(p) ==
    result[p.id].x + result[p.id].width
        - (p.style.padding.right + p.style.border_width)
InnerBottom(p) ==
    result[p.id].y + result[p.id].height
        - (p.style.padding.bottom + p.style.border_width)

\* The rectangle of c lies inside the inner rectangle of p.
InsideInner(p, c) ==
    /\ result[c.id].x >= InnerLeft(p)
    /\ result[c.id].y >= InnerTop(p)
    /\ result[c.id].x + result[c.id].width <= InnerRight(p)
    /\ result[c.id].y + result[c.id].height <= InnerBottom(p)

ChildrenInside(p) ==
    \A i \in DOMAIN visible_children(p) :
        PlacedByContainer(visible_children(p)[i])
            => InsideInner(p, visible_children(p)[i])

\* C30: the rectangle of every visible non-root node without a
\* position_x/position_y override lies entirely inside its parent's inner
\* rectangle (the parent's rectangle minus padding and border), also when
\* the children's base sizes plus gaps exceed the parent's main size.
C30_ChildrenInsideParent ==
    (Laid /\ ~panicked)
    => /\ ChildrenInside(tree)
       /\ \A i \in DOMAIN Vis : ChildrenInside(Vis[i])

====
